---------------------------- MODULE Spec2Model ----------------------------
(*
  The cell-update engines of the 3-D cellular automaton:

      LeddooSingleThreaded   src/src/cells/leddoo/single_threaded.rs
      LeddooMultiThreaded    src/src/cells/leddoo/multi_threaded.rs, mod.rs
      LeddooAtomic           src/src/cells/leddoo/atomic.rs

  Each engine keeps, per lattice cell, a decay value (0 = dead, rule.states =
  full) and a cached count of full-value neighbours.  The three engines are
  driven side by side with the same operations (set_bounds, spawn_noise,
  update followed by render), so that their grids can be compared position
  by position.

  Scaling.  The lattice is three-dimensional as in the source.  The chunk
  side is 32 in the source; a grid of 32^3 cells is out of reach of explicit
  state enumeration, so CHUNK_SIZE is scaled down to 5, the smallest side for
  which a chunk has border cells (local coordinate 0 or 4), cells one step
  from the border (1 or 3) and a strictly interior cell (2), i.e. for which
  both branches of LeddooAtomic::update_neighbors and both branches of
  Chunk::is_border_pos are taken.  The noise injector draws a series of
  positions per call (1728 in the source) in the cube of half-width 6 around
  the centre; the model draws one of the series of NoiseDraws.

  Vectors (Vec<T>) are functions over 0..len-1; a vector of cells
  { value, neighbors } is kept as the two vectors of its fields.  u8
  arithmetic is modulo 256.
*)
EXTENDS Integers, Sequences, FiniteSets, TLC

-----------------------------------------------------------------------------
(* Bounds of the model *)

CHUNK_SIZE == 5

\* operations (set_bounds, spawn_noise, update) per behaviour
MaxOps == 4

-----------------------------------------------------------------------------
(* u8 arithmetic *)

U8 == 256

u8_inc(n) == (n + 1) % U8

\* (variant) the decrement takes two
u8_dec_by_two(n) == (n - 2) % U8

u8_dec(n) == (n - 1) % U8

-----------------------------------------------------------------------------
(* neighbours.rs *)

VONNEUMAN_NEIGHBOURS ==
    << <<1, 0, 0>>, <<-1, 0, 0>>, <<0, 1, 0>>, <<0, -1, 0>>, <<0, 0, -1>>, <<0, 0, 1>> >>

MOOSE_NEIGHBOURS ==
    << <<-1, -1, -1>>, <<0, -1, -1>>, <<1, -1, -1>>,
       <<-1, 0, -1>>,  <<0, 0, -1>>,  <<1, 0, -1>>,
       <<-1, 1, -1>>,  <<0, 1, -1>>,  <<1, 1, -1>>,
       <<-1, -1, 0>>,  <<0, -1, 0>>,  <<1, -1, 0>>,
       <<-1, 0, 0>>,                  <<1, 0, 0>>,
       <<-1, 1, 0>>,   <<0, 1, 0>>,   <<1, 1, 0>>,
       <<-1, -1, 1>>,  <<0, -1, 1>>,  <<1, -1, 1>>,
       <<-1, 0, 1>>,   <<0, 0, 1>>,   <<1, 0, 1>>,
       <<-1, 1, 1>>,   <<0, 1, 1>>,   <<1, 1, 1>> >>

get_neighbour_iter(method) ==
    IF method = "Moore" THEN MOOSE_NEIGHBOURS ELSE VONNEUMAN_NEIGHBOURS

-----------------------------------------------------------------------------
(* rule.rs *)

\* Value([bool; 27]): a bitset indexed 0..26.
Value_new(indices) == [i \in 0..26 |-> i \in indices]

\* self.0[value as usize]
in_range(self, value) == self[value]

\* (variant) the upper end of the range is left out
Value_from_range_exclusive(a, b) == [i \in 0..26 |-> a <= i /\ i < b]

\* Value::from_range(a..=b)
Value_from_range(a, b) == [i \in 0..26 |-> i \in a..b]

\* Value::in_range called on its own: self.0[value as usize] on a [bool; 27]
\* panics (index out of bounds) when value is above 26
in_range_call(self, value) ==
    IF value \in DOMAIN self
    THEN [panics |-> FALSE, result |-> in_range(self, value)]
    ELSE [panics |-> TRUE, result |-> FALSE]

\* Value::in_range_incorrect: *self.0.get(value as usize).unwrap_or(&false)
in_range_incorrect_call(self, value) ==
    [panics |-> FALSE, result |-> IF value \in DOMAIN self THEN self[value] ELSE FALSE]

\* The rules the engines are run with (one is fixed per behaviour).
Rules ==
    { [survival_rule |-> Value_new({1}), birth_rule |-> Value_new({3}),
       states |-> 1, neighbour_method |-> "Moore", bounding_size |-> 0],
      [survival_rule |-> Value_new({2}), birth_rule |-> Value_new({2}),
       states |-> 2, neighbour_method |-> "VonNeuman", bounding_size |-> 0] }

-----------------------------------------------------------------------------
(* Geometry: IVec3 as <<x, y, z>> *)

vadd(p, q) == <<p[1] + q[1], p[2] + q[2], p[3] + q[3]>>

vscale(k, p) == <<k * p[1], k * p[2], k * p[3]>>

\* utils::index_to_pos(index, bounds)
index_to_pos(index, bounds) ==
    <<index % bounds, (index \div bounds) % bounds, (index \div bounds) \div bounds>>

\* utils::pos_to_index(pos, bounds)
pos_to_index(pos, bounds) ==
    pos[1] + pos[2] * bounds + pos[3] * bounds * bounds

\* utils::wrap(pos, bounds): true modulo on each axis
wrap(pos, bounds) ==
    <<((pos[1] % bounds) + bounds) % bounds,
      ((pos[2] % bounds) + bounds) % bounds,
      ((pos[3] % bounds) + bounds) % bounds>>

\* utils::center(bounds) / Rule::center
center(bounds) == <<bounds \div 2, bounds \div 2, bounds \div 2>>


-----------------------------------------------------------------------------
(* Noise injector: utils::make_some_noise_default(center, f) calls f on
   center + offset for a series of pseudo-random offsets in the cube of
   half-width 6.  The series drawn is an input of the model. *)

\* On a grid of two chunks per axis (centre 5,5,5) the offsets reach
\*   A -> (9,0,0)   chunk 1, on the face towards chunk 0 across the seam
\*   D -> (11,0,0) = (1,0,0) wrapped, chunk 0
\*   E -> (10,2,2) = (0,2,2) wrapped, chunk 0
\*   F -> (2,2,2)   the strictly interior cell of chunk 0
\*   G -> (3,2,2)   next to F
\*   P -> (4,2,2)   chunk 0, on the face towards chunk 1
\*   H -> (5,2,2)   chunk 1, on the face towards chunk 0, next to P
NoiseA == <<4, -5, -5>>

NoiseD == <<6, -5, -5>>

NoiseE == <<5, -3, -3>>

NoiseF == <<-3, -3, -3>>

NoiseG == <<-2, -3, -3>>

NoiseP == <<-1, -3, -3>>

NoiseH == <<0, -3, -3>>

NoiseDraws == { <<NoiseA, NoiseD, NoiseE, NoiseF, NoiseP, NoiseH, NoiseA>>,
                <<NoiseF, NoiseG, NoiseF>> }

make_some_noise_default(c, draws) == [k \in DOMAIN draws |-> vadd(c, draws[k])]

\* the elements of a set of indices in ascending order (the order in which a
\* scan over the cells pushes them)
\* (computed by halving the span of the set, so that the depth of the
\* recursion is the logarithm of the span and not the size of the set)
RECURSIVE Span(_, _, _)
Span(S, lo, w) == IF \A x \in S : x < lo + w THEN w ELSE Span(S, lo, 2 * w)

RECURSIVE AscendingIn(_, _, _)
AscendingIn(S, lo, w) ==
    IF S = {} THEN <<>>
    ELSE IF w = 1 THEN <<lo>>
    ELSE AscendingIn({x \in S : x < lo + (w \div 2)}, lo, w \div 2)
         \o AscendingIn({x \in S : x >= lo + (w \div 2)}, lo + (w \div 2), w \div 2)

Ascending(S) ==
    IF S = {} THEN <<>>
    ELSE LET first(m) == AscendingIn(S, m, Span(S, m, 1))
         IN first(CHOOSE x \in S : \A y \in S : x <= y)

\* number of entries of a list of cell indices that are equal to j
Occurrences(targets, j) == Cardinality({h \in DOMAIN targets : targets[h] = j})

\* A vector of u8 counts after a sequential loop has executed `+= 1` once per
\* entry of incs and `-= 1` once per entry of decs (u8 additions commute, so
\* the counts after the loop depend on the numbers of entries per cell only).
patch(neighbors, incs, decs) ==
    LET touched == {incs[h] : h \in DOMAIN incs} \cup {decs[h] : h \in DOMAIN decs}
    IN [j \in DOMAIN neighbors |->
           IF j \in touched
           THEN (neighbors[j] + Occurrences(incs, j) - Occurrences(decs, j)) % U8
           ELSE neighbors[j]]

\* the (source, direction) pairs of `for index in list { for dir in .. }` in
\* the order of the loops, each mapped to the cell it writes
targets_of(list, rule_, neighbor_index(_, _)) ==
    LET D == Len(get_neighbour_iter(rule_.neighbour_method))
    IN [h \in 1..(Len(list) * D) |->
           neighbor_index(list[((h - 1) \div D) + 1], ((h - 1) % D) + 1)]

-----------------------------------------------------------------------------
(* The Phase A decision on one cell, as written in each of the three engines:
     if dead { if birth_rule.in_range(neighbors) { value = states; spawns.push } }
     else { if value < states || !survival_rule.in_range(neighbors) {
                if value == states { deaths.push }
                value -= 1 } }                                             *)

\* (variant) the cell at full value is never kept
decays_always(value, neighbors, rule_) == TRUE

\* the cell at full value is not kept (the condition of the inner if)
decays(value, neighbors, rule_) ==
    value < rule_.states \/ ~in_range(rule_.survival_rule, neighbors)

\* (variant) a cell below full value is not decremented
update_value_full_only(value, neighbors, rule_) ==
    IF value = 0
    THEN IF in_range(rule_.birth_rule, neighbors) THEN rule_.states ELSE value
    ELSE IF value = rule_.states /\ ~in_range(rule_.survival_rule, neighbors)
         THEN u8_dec(value) ELSE value

\* the new value of the cell
update_value(value, neighbors, rule_) ==
    IF value = 0
    THEN IF in_range(rule_.birth_rule, neighbors) THEN rule_.states ELSE value
    ELSE IF decays(value, neighbors, rule_) THEN u8_dec(value) ELSE value

\* (variant) every dead cell evaluated is pushed to spawns
is_spawn_unchecked(value, neighbors, rule_) == value = 0

\* the cell is pushed to spawns
is_spawn(value, neighbors, rule_) ==
    value = 0 /\ in_range(rule_.birth_rule, neighbors)

\* (variant) no cell is pushed to deaths
is_death_never(value, neighbors, rule_) == FALSE

\* the cell is pushed to deaths
is_death(value, neighbors, rule_) ==
    value # 0 /\ decays(value, neighbors, rule_) /\ value = rule_.states

\* Value::in_range indexes a [bool; 27]: the decision on a cell panics when a
\* count above 26 is looked up (birth_rule for a dead cell, survival_rule for
\* a cell that is not below full value)
in_range_panics(value, neighbors, rule_) ==
    neighbors > 26 /\ (value = 0 \/ value >= rule_.states)

-----------------------------------------------------------------------------
(* LeddooSingleThreaded *)

\* LeddooSingleThreaded::new
st_new == [values |-> <<>>, neighbors |-> <<>>, size |-> 0]

\* (variant) the cells are resized without being cleared first
set_size_not_cleared(self, new_size) ==
    IF new_size # self.size
    THEN [values    |-> [i \in 0..(new_size * new_size * new_size - 1) |->
                            IF i \in DOMAIN self.values THEN self.values[i] ELSE 0],
          neighbors |-> [i \in 0..(new_size * new_size * new_size - 1) |->
                            IF i \in DOMAIN self.neighbors THEN self.neighbors[i] ELSE 0],
          size      |-> new_size]
    ELSE self

\* LeddooSingleThreaded::set_size
set_size(self, new_size) ==
    IF new_size # self.size
    THEN [values    |-> [i \in 0..(new_size * new_size * new_size - 1) |-> 0],
          neighbors |-> [i \in 0..(new_size * new_size * new_size - 1) |-> 0],
          size      |-> new_size]
    ELSE self

\* (variant) the y coordinate is not reduced modulo the size
index_to_vec_y_not_reduced(self, index) ==
    <<index % self.size, index \div self.size, (index \div self.size) \div self.size>>

\* LeddooSingleThreaded::index_to_vec
index_to_vec(self, index) ==
    <<index % self.size, (index \div self.size) % self.size,
      (index \div self.size) \div self.size>>

\* LeddooSingleThreaded::vec_to_index
vec_to_index(self, vec) ==
    vec[1] + vec[2] * self.size + vec[3] * self.size * self.size

\* (variant) the remainder of the truncated division (Rust's %): negative for
\* a negative coordinate
st_wrap_rem(self, pos) ==
    LET rem(c) == IF c >= 0 THEN c % self.size ELSE 0 - ((0 - c) % self.size)
    IN <<rem(pos[1]), rem(pos[2]), rem(pos[3])>>

\* LeddooSingleThreaded::wrap
st_wrap(self, pos) == wrap(pos, self.size)

\* (variant) the neighbour position is not wrapped
st_neighbor_index_unwrapped(self, rule_, index, k) ==
    LET dir == get_neighbour_iter(rule_.neighbour_method)[k]
    IN vec_to_index(self, vadd(index_to_vec(self, index), dir))

\* LeddooSingleThreaded::update_neighbors: the cell written for direction k
st_neighbor_index(self, rule_, index, k) ==
    LET dir == get_neighbour_iter(rule_.neighbour_method)[k]
    IN vec_to_index(self, st_wrap(self, vadd(index_to_vec(self, index), dir)))

\* for index in list { self.update_neighbors(rule, index, inc) }
st_targets(self, rule_, list) ==
    LET neighbor_index(index, k) == st_neighbor_index(self, rule_, index, k)
    IN targets_of(list, rule_, neighbor_index)

\* LeddooSingleThreaded::update_neighbors
st_update_neighbors(self, rule_, index, inc) ==
    [self EXCEPT !.neighbors =
        IF inc THEN patch(@, st_targets(self, rule_, <<index>>), <<>>)
               ELSE patch(@, <<>>, st_targets(self, rule_, <<index>>))]

\* LeddooSingleThreaded::update
st_update(self, rule_) ==
    LET s0 == set_size(self, rule_.bounding_size)
        spawns == Ascending({i \in DOMAIN s0.values :
                      is_spawn(s0.values[i], s0.neighbors[i], rule_)})
        deaths == Ascending({i \in DOMAIN s0.values :
                      is_death(s0.values[i], s0.neighbors[i], rule_)})
    IN [s0 EXCEPT
          !.values = [i \in DOMAIN s0.values |->
                         update_value(s0.values[i], s0.neighbors[i], rule_)],
          !.neighbors = patch(@, st_targets(s0, rule_, spawns),
                                 st_targets(s0, rule_, deaths))]

\* the closure of LeddooSingleThreaded::spawn_noise on positions k.. of the
\* series: the values, and the cells it has set, in the order of the visits
RECURSIVE st_spawn_noise_from(_, _, _, _, _)
st_spawn_noise_from(self, rule_, positions, k, set) ==
    IF k > Len(positions) THEN [values |-> self.values, set |-> set]
    ELSE LET index == vec_to_index(self, st_wrap(self, positions[k]))
         IN IF self.values[index] = 0
            THEN st_spawn_noise_from([self EXCEPT !.values[index] = rule_.states],
                                     rule_, positions, k + 1, Append(set, index))
            ELSE st_spawn_noise_from(self, rule_, positions, k + 1, set)

\* LeddooSingleThreaded::spawn_noise
st_spawn_noise(self, rule_, draws) ==
    LET r == st_spawn_noise_from(self, rule_,
                 make_some_noise_default(center(rule_.bounding_size), draws), 1, <<>>)
    IN [self EXCEPT !.values = r.values,
                    !.neighbors = patch(@, st_targets(self, rule_, r.set), <<>>)]

-----------------------------------------------------------------------------
(* LeddooAtomic *)

CHUNK_CELL_COUNT == CHUNK_SIZE * CHUNK_SIZE * CHUNK_SIZE

\* (variant) the radius rounded down
bounds_to_chunk_radius_floor(bounds) == bounds \div CHUNK_SIZE

\* bounds_to_chunk_radius
bounds_to_chunk_radius(bounds) == (bounds + CHUNK_SIZE - 1) \div CHUNK_SIZE

\* (variant) the layer of the offset is dropped
chunk_offset_to_pos_one_layer(offset) ==
    <<offset % CHUNK_SIZE, (offset \div CHUNK_SIZE) % CHUNK_SIZE, 0>>

\* chunk_offset_to_pos
chunk_offset_to_pos(offset) == index_to_pos(offset, CHUNK_SIZE)

\* (variant) only the cells on the faces of the chunk, whatever the offset
chunk_is_border_pos_faces(pos, offset) ==
    \/ pos[1] <= 0 \/ pos[1] >= CHUNK_SIZE - 1
    \/ pos[2] <= 0 \/ pos[2] >= CHUNK_SIZE - 1
    \/ pos[3] <= 0 \/ pos[3] >= CHUNK_SIZE - 1

\* chunk_is_border_pos
chunk_is_border_pos(pos, offset) ==
    \/ pos[1] - offset <= 0 \/ pos[1] + offset >= CHUNK_SIZE - 1
    \/ pos[2] - offset <= 0 \/ pos[2] + offset >= CHUNK_SIZE - 1
    \/ pos[3] - offset <= 0 \/ pos[3] + offset >= CHUNK_SIZE - 1

\* Values::new(length)
Values_new(length) == [i \in 0..(length - 1) |-> 0]

\* cell_is_dead
cell_is_dead(value) == value = 0

\* LeddooAtomic::new
at_new == [values |-> Values_new(0), neighbors |-> Values_new(0),
           chunk_radius |-> 0, chunk_count |-> 0]

\* LeddooAtomic::set_bounds: the engine after the call
at_set_bounds(self, new_bounds) ==
    LET radius == bounds_to_chunk_radius(new_bounds)
        bounds == radius * CHUNK_SIZE
    IN [values       |-> Values_new(bounds * bounds * bounds),
        neighbors    |-> Values_new(bounds * bounds * bounds),
        chunk_radius |-> radius,
        chunk_count  |-> radius * radius * radius]

\* LeddooAtomic::set_bounds: the value returned
at_set_bounds_result(new_bounds) ==
    bounds_to_chunk_radius(new_bounds) * CHUNK_SIZE

\* LeddooAtomic::bounds
at_bounds(self) == self.chunk_radius * CHUNK_SIZE

\* LeddooAtomic::total_cell_count
at_total_cell_count(self) == self.chunk_count * CHUNK_CELL_COUNT

\* LeddooAtomic::center
at_center(self) == center(at_bounds(self))

\* (variant) no call takes the atomic branch
at_source_is_atomic_never(index, bounds) == FALSE

\* LeddooAtomic::update_neighbors: the call for the source cell at index takes
\* the atomic branch
at_source_is_atomic(index, bounds) ==
    LET pos   == index_to_pos(index, bounds)
        local == <<pos[1] % CHUNK_SIZE, pos[2] % CHUNK_SIZE, pos[3] % CHUNK_SIZE>>
    IN chunk_is_border_pos(local, 1)

\* LeddooAtomic::update_neighbors: the accesses to the counts for the source
\* cell at index are neighbors.atomic(index).fetch_add/fetch_sub (else they
\* are `*neighbors.write(index) += 1` / `-= 1`)
at_access_is_atomic(index, bounds) == at_source_is_atomic(index, bounds)

\* (variant) the neighbour position is clamped to the grid, not wrapped
at_neighbor_index_clamped(index, bounds, rule_, k) ==
    LET pos == vadd(index_to_pos(index, bounds),
                    get_neighbour_iter(rule_.neighbour_method)[k])
        clamp(c) == IF c < 0 THEN 0 ELSE IF c > bounds - 1 THEN bounds - 1 ELSE c
    IN pos_to_index(<<clamp(pos[1]), clamp(pos[2]), clamp(pos[3])>>, bounds)

\* LeddooAtomic::update_neighbors: the cell written for direction k
at_neighbor_index(index, bounds, rule_, k) ==
    LET pos == index_to_pos(index, bounds)
        dir == get_neighbour_iter(rule_.neighbour_method)[k]
    IN IF at_source_is_atomic(index, bounds)
       THEN pos_to_index(wrap(vadd(pos, dir), bounds), bounds)
       ELSE pos_to_index(vadd(pos, dir), bounds)

\* LeddooAtomic::update_neighbors run to its end by one thread
at_update_neighbors(neighbors, index, bounds, rule_, inc) ==
    LET neighbor_index(i, k) == at_neighbor_index(i, bounds, rule_, k)
    IN IF inc THEN patch(neighbors, targets_of(<<index>>, rule_, neighbor_index), <<>>)
              ELSE patch(neighbors, <<>>, targets_of(<<index>>, rule_, neighbor_index))

\* (variant) the position of the chunk is left out of the cell's position
at_chunk_cell_index_no_chunk_pos(chunk_index, chunk_radius, bounds, offset) ==
    pos_to_index(chunk_offset_to_pos(offset), bounds)

\* LeddooAtomic::update_values: the global index of the chunk's cell at offset
at_chunk_cell_index(chunk_index, chunk_radius, bounds, offset) ==
    LET chunk_pos == vscale(CHUNK_SIZE, index_to_pos(chunk_index, chunk_radius))
    IN pos_to_index(vadd(chunk_pos, chunk_offset_to_pos(offset)), bounds)

\* (variant) deaths.push(index) for every cell that is decremented
at_update_values_deaths_on_decay(values, neighbors, chunk_index, chunk_radius, bounds, rule_) ==
    LET offsets == 0..(CHUNK_CELL_COUNT - 1)
        cell_index == [o \in offsets |->
                          at_chunk_cell_index(chunk_index, chunk_radius, bounds, o)]
        cells  == {cell_index[o] : o \in offsets}
        spawns == Ascending({o \in offsets :
                      is_spawn(values[cell_index[o]], neighbors[cell_index[o]], rule_)})
        deaths == Ascending({o \in offsets :
                      /\ values[cell_index[o]] # 0
                      /\ decays(values[cell_index[o]], neighbors[cell_index[o]], rule_)})
    IN [values |-> [i \in DOMAIN values |->
                       IF i \in cells
                       THEN update_value(values[i], neighbors[i], rule_)
                       ELSE values[i]],
        spawns |-> [k \in DOMAIN spawns |-> cell_index[spawns[k]]],
        deaths |-> [k \in DOMAIN deaths |-> cell_index[deaths[k]]]]

\* LeddooAtomic::update_values: the loop over the offsets of one chunk; every
\* offset reads and writes the cell at_chunk_cell_index(.., offset) only, and
\* the lists are pushed in the order of the offsets
at_update_values(values, neighbors, chunk_index, chunk_radius, bounds, rule_) ==
    LET offsets == 0..(CHUNK_CELL_COUNT - 1)
        cell_index == [o \in offsets |->
                          at_chunk_cell_index(chunk_index, chunk_radius, bounds, o)]
        cells  == {cell_index[o] : o \in offsets}
        spawns == Ascending({o \in offsets :
                      is_spawn(values[cell_index[o]], neighbors[cell_index[o]], rule_)})
        deaths == Ascending({o \in offsets :
                      is_death(values[cell_index[o]], neighbors[cell_index[o]], rule_)})
    IN [values |-> [i \in DOMAIN values |->
                       IF i \in cells
                       THEN update_value(values[i], neighbors[i], rule_)
                       ELSE values[i]],
        spawns |-> [k \in DOMAIN spawns |-> cell_index[spawns[k]]],
        deaths |-> [k \in DOMAIN deaths |-> cell_index[deaths[k]]]]

\* the closure of LeddooAtomic::spawn_noise on positions k.. of the series:
\* the values, and the cells it has set, in the order of the visits
RECURSIVE at_spawn_noise_from(_, _, _, _, _)
at_spawn_noise_from(self, rule_, positions, k, set) ==
    IF k > Len(positions) THEN [values |-> self.values, set |-> set]
    ELSE LET bounds == at_bounds(self)
             index  == pos_to_index(wrap(positions[k], bounds), bounds)
         IN IF cell_is_dead(self.values[index])
            THEN at_spawn_noise_from([self EXCEPT !.values[index] = rule_.states],
                                     rule_, positions, k + 1, Append(set, index))
            ELSE at_spawn_noise_from(self, rule_, positions, k + 1, set)

\* LeddooAtomic::spawn_noise: every cell set is followed by its
\* Self::update_neighbors(&self.neighbors, index, self.bounds(), rule, true)
at_spawn_noise(self, rule_, draws) ==
    LET r == at_spawn_noise_from(self, rule_,
                 make_some_noise_default(at_center(self), draws), 1, <<>>)
        neighbor_index(i, k) == at_neighbor_index(i, at_bounds(self), rule_, k)
    IN [self EXCEPT !.values = r.values,
                    !.neighbors = patch(@, targets_of(r.set, rule_, neighbor_index), <<>>)]

-----------------------------------------------------------------------------
(* leddoo/mod.rs: Chunk, Chunks.  chunks[c][o] is kept as values[c][o] and
   neighbours[c][o]. *)

\* index_to_chunk_index
index_to_chunk_index(index) == index \div CHUNK_CELL_COUNT

\* index_to_chunk_offset
index_to_chunk_offset(index) == index % CHUNK_CELL_COUNT

\* Chunk::default: every cell Cell::default()
Chunk_default == [o \in 0..(CHUNK_CELL_COUNT - 1) |-> 0]

\* Chunk::index_to_pos
Chunk_index_to_pos(index) == index_to_pos(index, CHUNK_SIZE)

\* Chunk::pos_to_index
Chunk_pos_to_index(pos) == pos_to_index(pos, CHUNK_SIZE)

\* (variant) no cell is a border cell
Chunk_is_border_pos_never(pos, offset) == FALSE

\* Chunk::is_border_pos
Chunk_is_border_pos(pos, offset) ==
    \/ pos[1] - offset <= 0 \/ pos[1] + offset >= CHUNK_SIZE - 1
    \/ pos[2] - offset <= 0 \/ pos[2] + offset >= CHUNK_SIZE - 1
    \/ pos[3] - offset <= 0 \/ pos[3] + offset >= CHUNK_SIZE - 1

\* Chunks::new
Chunks_new == [values |-> <<>>, neighbours |-> <<>>, chunk_radius |-> 0, chunk_count |-> 0]

\* Chunks::bounds
Chunks_bounds(self) == self.chunk_radius * CHUNK_SIZE

\* Chunks::index_to_pos_ex
index_to_pos_ex(index, chunk_radius) ==
    LET chunk      == index_to_chunk_index(index)
        offset     == index_to_chunk_offset(index)
        chunk_vec  == index_to_pos(chunk, chunk_radius)
        offset_vec == Chunk_index_to_pos(offset)
    IN vadd(vscale(CHUNK_SIZE, chunk_vec), offset_vec)

\* Chunks::pos_to_index_ex
pos_to_index_ex(vec, chunk_radius) ==
    LET chunk_vec  == <<vec[1] \div CHUNK_SIZE, vec[2] \div CHUNK_SIZE, vec[3] \div CHUNK_SIZE>>
        offset_vec == <<vec[1] % CHUNK_SIZE, vec[2] % CHUNK_SIZE, vec[3] % CHUNK_SIZE>>
        chunk      == pos_to_index(chunk_vec, chunk_radius)
        offset     == Chunk_pos_to_index(offset_vec)
    IN chunk * CHUNK_CELL_COUNT + offset

\* Vec::resize_with(count, || Chunk::default()): the vector is truncated or
\* extended; the elements it keeps are not touched
resize_with(chunks, count) ==
    [c \in 0..(count - 1) |-> IF c \in DOMAIN chunks THEN chunks[c] ELSE Chunk_default]

\* Chunks::set_bounds: the structure after the call
Chunks_set_bounds(self, new_bounds) ==
    LET radius == (new_bounds + CHUNK_SIZE - 1) \div CHUNK_SIZE
        count  == radius * radius * radius
    IN IF radius # self.chunk_radius
       THEN [values       |-> resize_with(self.values, count),
             neighbours   |-> resize_with(self.neighbours, count),
             chunk_radius |-> radius,
             chunk_count  |-> count]
       ELSE self

-----------------------------------------------------------------------------
(* LeddooMultiThreaded *)

\* LeddooMultiThreaded::new
mt_new == Chunks_new

\* LeddooMultiThreaded::set_bounds
mt_set_bounds(self, new_bounds) == Chunks_set_bounds(self, new_bounds)

\* LeddooMultiThreaded::bounds
mt_bounds(self) == Chunks_bounds(self)

\* LeddooMultiThreaded::center
mt_center(self) == <<mt_bounds(self) \div 2, mt_bounds(self) \div 2, mt_bounds(self) \div 2>>

\* (variant) the position is clamped to the grid, not wrapped
mt_wrap_clamped(self, pos) ==
    LET clamp(c) == IF c < 0 THEN 0
                    ELSE IF c > mt_bounds(self) - 1 THEN mt_bounds(self) - 1 ELSE c
    IN <<clamp(pos[1]), clamp(pos[2]), clamp(pos[3])>>

\* LeddooMultiThreaded::wrap
mt_wrap(self, pos) == wrap(pos, mt_bounds(self))

\* LeddooMultiThreaded::update_neighbors_chunk on the counts of one chunk,
\* directions k.. of the loop
RECURSIVE update_neighbors_chunk_from(_, _, _, _, _)
update_neighbors_chunk_from(chunk, rule_, offset, inc, k) ==
    LET dirs == get_neighbour_iter(rule_.neighbour_method) IN
    IF k > Len(dirs) THEN chunk
    ELSE LET index == Chunk_pos_to_index(vadd(Chunk_index_to_pos(offset), dirs[k]))
         IN update_neighbors_chunk_from(
                [chunk EXCEPT ![index] = IF inc THEN u8_inc(@) ELSE u8_dec(@)],
                rule_, offset, inc, k + 1)

update_neighbors_chunk(chunk, rule_, offset, inc) ==
    update_neighbors_chunk_from(chunk, rule_, offset, inc, 1)

\* LeddooMultiThreaded::update_neighbors: the cell (as chunk * CHUNK_CELL_COUNT
\* + offset) written for direction k
mt_neighbor_index(self, rule_, index, k) ==
    LET dir == get_neighbour_iter(rule_.neighbour_method)[k]
        pos == index_to_pos_ex(index, self.chunk_radius)
    IN pos_to_index_ex(mt_wrap(self, vadd(pos, dir)), self.chunk_radius)

\* for index in list { self.update_neighbors(&mut chunks, rule, index, inc) }
mt_targets(self, rule_, list) ==
    LET neighbor_index(index, k) == mt_neighbor_index(self, rule_, index, k)
    IN targets_of(list, rule_, neighbor_index)

\* the counts of all chunks after `+= 1` on chunks[chunk].0[offset] for every
\* entry of incs and `-= 1` for every entry of decs
mt_patch(chunks, incs, decs) ==
    LET touched == {incs[h] : h \in DOMAIN incs} \cup {decs[h] : h \in DOMAIN decs}
        chunks_touched == {index_to_chunk_index(i) : i \in touched}
    IN [c \in DOMAIN chunks |->
           IF c \in chunks_touched
           THEN [o \in DOMAIN chunks[c] |->
                    LET j == c * CHUNK_CELL_COUNT + o
                    IN IF j \in touched
                       THEN (chunks[c][o] + Occurrences(incs, j) - Occurrences(decs, j)) % U8
                       ELSE chunks[c][o]]
           ELSE chunks[c]]

\* LeddooMultiThreaded::update_neighbors
mt_update_neighbors(self, chunks, rule_, index, inc) ==
    IF inc THEN mt_patch(chunks, mt_targets(self, rule_, <<index>>), <<>>)
           ELSE mt_patch(chunks, <<>>, mt_targets(self, rule_, <<index>>))

\* (variant) only the faces at local coordinate 0 count as border
mt_offset_is_border_low_faces(offset) ==
    \E a \in 1..3 : Chunk_index_to_pos(offset)[a] <= 0

\* LeddooMultiThreaded::update_values_chunk: the spawn or death at offset goes
\* to the list of the serial pass
mt_offset_is_border(offset) == Chunk_is_border_pos(Chunk_index_to_pos(offset), 0)

\* LeddooMultiThreaded::update_values_chunk on the values and counts of one
\* chunk; the lists are pushed in the order of the offsets
update_values_chunk(values, neighbours, chunk_index, rule_) ==
    LET offsets == 0..(CHUNK_CELL_COUNT - 1)
        born == {o \in offsets : is_spawn(values[o], neighbours[o], rule_)}
        dies == {o \in offsets : is_death(values[o], neighbours[o], rule_)}
        global(list) == [k \in DOMAIN list |-> chunk_index * CHUNK_CELL_COUNT + list[k]]
    IN [values       |-> [o \in offsets |-> update_value(values[o], neighbours[o], rule_)],
        chunk_spawns |-> Ascending({o \in born : ~mt_offset_is_border(o)}),
        spawns       |-> global(Ascending({o \in born : mt_offset_is_border(o)})),
        chunk_deaths |-> Ascending({o \in dies : ~mt_offset_is_border(o)}),
        deaths       |-> global(Ascending({o \in dies : mt_offset_is_border(o)}))]

\* the closure of LeddooMultiThreaded::spawn_noise on positions k.. of the
\* series: the values, and the cells it has set, in the order of the visits
RECURSIVE mt_spawn_noise_from(_, _, _, _, _)
mt_spawn_noise_from(self, rule_, positions, k, set) ==
    IF k > Len(positions) THEN [values |-> self.values, set |-> set]
    ELSE LET index  == pos_to_index_ex(mt_wrap(self, positions[k]), self.chunk_radius)
             chunk  == index_to_chunk_index(index)
             offset == index_to_chunk_offset(index)
         IN IF self.values[chunk][offset] = 0
            THEN mt_spawn_noise_from([self EXCEPT !.values[chunk][offset] = rule_.states],
                                     rule_, positions, k + 1, Append(set, index))
            ELSE mt_spawn_noise_from(self, rule_, positions, k + 1, set)

\* LeddooMultiThreaded::spawn_noise: every cell set is followed by its
\* self.update_neighbors(&mut chunks, rule, index, true)
mt_spawn_noise(self, rule_, draws) ==
    LET r == mt_spawn_noise_from(self, rule_,
                 make_some_noise_default(mt_center(self), draws), 1, <<>>)
    IN [self EXCEPT !.values = r.values,
                    !.neighbours = mt_patch(@, mt_targets(self, rule_, r.set), <<>>)]

-----------------------------------------------------------------------------
(* cells/tantan: the sparse simulations.  states is a HashMap from position
   to CellState; a map is modelled as a function whose domain is the set of
   its keys.  CellState.dist_to_center is a function of the position and of
   the rule and is left out. *)

\* rule.bounding_size of the rule the sparse simulations are run with
TantanBounds == 3

\* number of handler calls on the sparse simulations
MaxTantanOps == 4

\* HashMap::new()
EmptyMap == [p \in {} |-> 0]

\* CellState::new(value, neighbours, dist_to_center)
CellState_new(value, neighbours) == [value |-> value, neighbours |-> neighbours]

\* Rule::get_bounding_ranges: 0..=bounding_size-1 on each axis
get_bounding_ranges(rule_) ==
    (0..(rule_.bounding_size - 1)) \X (0..(rule_.bounding_size - 1))
        \X (0..(rule_.bounding_size - 1))

\* utils::is_in_bounds(pos, bounds)
is_in_bounds(pos, bounds) == \A a \in 1..3 : 0 <= pos[a] /\ pos[a] < bounds

\* the offsets utils::make_some_noise_default draws, on the scale of
\* TantanBounds; the last series leaves the bounding box
TantanDraws ==
    { << <<0, 0, 0>> >>,
      << <<0, 0, 0>>, <<1, 0, 0>> >>,
      << <<-1, 0, 0>>, <<0, 0, 0>>, <<0, 1, 0>>, <<0, 0, 0>> >>,
      << <<2, 0, 0>>, <<1, 1, 0>> >> }

\* the closure passed to make_some_noise_default by the sparse simulations:
\* states.insert(pos, CellState::new(rule.states, 0, dist)) for each position
tantan_insert_noise(states, rule_, positions) ==
    LET drawn == {positions[k] : k \in DOMAIN positions}
    IN [p \in DOMAIN states \cup drawn |->
           IF p \in drawn THEN CellState_new(rule_.states, 0) ELSE states[p]]

\* calculate_neighbours: each cell at full value adds one to the count kept
\* at wrap(cell_pos + dir, rule.bounding_size) for each direction
tantan_calculate_neighbours(states, rule_) ==
    LET dirs == get_neighbour_iter(rule_.neighbour_method)
        full == {p \in DOMAIN states : states[p].value = rule_.states}
        target(p, k) == wrap(vadd(p, dirs[k]), rule_.bounding_size)
        keys == {target(pk[1], pk[2]) : pk \in full \X DOMAIN dirs}
    IN [q \in keys |->
           Cardinality({pk \in full \X DOMAIN dirs : target(pk[1], pk[2]) = q}) % U8]

\* match self.neighbours.get(&cell_pos) { Some(n) => *n, None => 0 }
neighbours_get(neighbours, pos) ==
    IF pos \in DOMAIN neighbours THEN neighbours[pos] ELSE 0

\* calculate_changes on a cell present in states:
\* !(survival_rule.in_range_incorrect(neighbours) && cell.value == rule.states)
tantan_is_decay(cell, n, rule_) ==
    ~(in_range_incorrect_call(rule_.survival_rule, n).result /\ cell.value = rule_.states)

\* calculate_changes on a position absent from states
tantan_is_spawn(n, rule_) == in_range_incorrect_call(rule_.birth_rule, n).result

\* CellsSinglethreaded::calculate_changes: over the bounding ranges
tst_calculate_changes(states, neighbours, rule_) ==
    [changes |-> {p \in get_bounding_ranges(rule_) \cap DOMAIN states :
                     tantan_is_decay(states[p], neighbours_get(neighbours, p), rule_)},
     spawn |-> {p \in get_bounding_ranges(rule_) \ DOMAIN states :
                     tantan_is_spawn(neighbours_get(neighbours, p), rule_)}]

\* apply_changes: the spawns are inserted at rule.states, each change lowers
\* the value by one (min(value - 1, rule.states) as u8), the cells at value 0
\* are removed
tantan_apply_changes(states, spawn, changes, neighbours, rule_) ==
    LET spawned == [p \in DOMAIN states \cup spawn |->
                       IF p \in spawn
                       THEN CellState_new(rule_.states, neighbours_get(neighbours, p))
                       ELSE states[p]]
        lowered(v) == (IF v - 1 < rule_.states THEN v - 1 ELSE rule_.states) % U8
        changed == [p \in DOMAIN spawned |->
                       IF p \in changes
                       THEN [spawned[p] EXCEPT !.value = lowered(@)]
                       ELSE spawned[p]]
    IN [p \in {q \in DOMAIN changed : changed[q].value > 0} |-> changed[p]]

\* CellsSinglethreaded::new(); the Vec spawn is kept as the set of its entries
tst_new == [states |-> EmptyMap, neighbours |-> EmptyMap, changes |-> EmptyMap,
            spawn |-> {}]

\* CellsSinglethreaded::calculate_neighbours: the counts are added to the
\* entries self.neighbours holds
tst_calculate_neighbours(self, rule_) ==
    LET counted == tantan_calculate_neighbours(self.states, rule_)
    IN [self EXCEPT !.neighbours =
           [q \in DOMAIN self.neighbours \cup DOMAIN counted |->
               (neighbours_get(self.neighbours, q) + neighbours_get(counted, q)) % U8]]

\* CellsSinglethreaded::calculate_changes, on self: changes.insert(cell_pos, -1)
\* and spawn.push((cell_pos, neighbours))
tst_push_changes(self, rule_) ==
    LET c == tst_calculate_changes(self.states, self.neighbours, rule_)
    IN [self EXCEPT
          !.changes = [p \in DOMAIN self.changes \cup c.changes |->
                          IF p \in c.changes THEN -1 ELSE self.changes[p]],
          !.spawn = @ \cup {<<p, neighbours_get(self.neighbours, p)>> : p \in c.spawn}]

\* (variant) the cached data is not cleared
tst_apply_changes_caches_kept(self, rule_) ==
    [self EXCEPT !.states =
        tantan_apply_changes(self.states, {s[1] : s \in self.spawn},
                             DOMAIN self.changes, self.neighbours, rule_)]

\* CellsSinglethreaded::apply_changes: spawns, state changes, remove dead,
\* then spawn.clear(), changes.clear(), neighbours.clear()
tst_apply_changes(self, rule_) ==
    [states |-> tantan_apply_changes(self.states, {s[1] : s \in self.spawn},
                                     DOMAIN self.changes, self.neighbours, rule_),
     neighbours |-> EmptyMap,
     changes |-> EmptyMap,
     spawn |-> {}]

\* CellsSinglethreaded::tick
tst_tick(self, rule_) ==
    tst_apply_changes(tst_push_changes(tst_calculate_neighbours(self, rule_), rule_),
                      rule_)

\* tantan CellsMultithreaded::new()
tmt_new == [states |-> EmptyMap, change_mask |-> EmptyMap]

\* tantan CellsMultithreaded::calculate_changes: over the keys of change_mask,
\* a spawn only where utils::is_in_bounds
tmt_calculate_changes(states, neighbours, mask, rule_) ==
    [changes |-> {p \in mask \cap DOMAIN states :
                     tantan_is_decay(states[p], neighbours_get(neighbours, p), rule_)},
     spawn |-> {p \in mask \ DOMAIN states :
                     /\ tantan_is_spawn(neighbours_get(neighbours, p), rule_)
                     /\ is_in_bounds(p, rule_.bounding_size)}]

\* tantan CellsMultithreaded::tick: the tasks of each half are awaited
\* (block_on) before their results are merged, so the tick is one step; the
\* mask gains every counted position and every key of states, and is reset to
\* false (its keys kept) by apply_changes
tmt_tick(self, rule_) ==
    LET neighbours == tantan_calculate_neighbours(self.states, rule_)
        mask == DOMAIN self.change_mask \cup DOMAIN neighbours \cup DOMAIN self.states
        c == tmt_calculate_changes(self.states, neighbours, mask, rule_)
    IN [states |-> tantan_apply_changes(self.states, c.spawn, c.changes, neighbours, rule_),
        change_mask |-> [p \in mask |-> FALSE]]

\* no noise injected by the last handler; born holds the positions the last
\* CellsSinglethreaded::tick pushed to spawn
NoNoise == [sim |-> "none", positions |-> {}, before |-> EmptyMap, noised |-> EmptyMap]

\* the sparse simulations after construction
tantan_new == [st |-> tst_new, mt |-> tmt_new, ops |-> 0, noise |-> NoNoise,
               born |-> {}]

-----------------------------------------------------------------------------
(* cells_multithreaded.rs: CellsMultithreaded, whose tick() advances one
   ProcessStep per call and leaves the work to spawned tasks. *)

\* the resource before CellsMultithreadedPlugin::build
NoCm == [step |-> "none"]

-----------------------------------------------------------------------------

-----------------------------------------------------------------------------
(* cells/sims.rs: Sims, the driver of the Sim trait objects.  The simulators
   modelled are the two engines whose impl of Sim has bounds() and
   set_bounds(): sims[0] is LeddooAtomic (variable at), sims[1] is
   LeddooMultiThreaded (variable mt); reset() is the default method of the
   trait.  The frame handler blocks on sim.update, so the update is one step
   of the frame.  The operators below work on `this`: the fields of Sims with
   the two engines and the rule, and the history of the frame
     after_set_sim  <<self.bounds, sims[index].bounds(), renderer.bounds>> as the
              last set_sim of the frame returned (<<>>: not called)
     seeded   <<rule>> passed to the last sim.reset(); sim.spawn_noise(&rule)
              pair of the frame, or to the spawn_noise of set_sim on a grid
              that was all dead (<<>>: none)
     update   what sim.update(&rule) was called on. *)

\* frames per behaviour
MaxFrames == 2

\* the simulators of Sims (Sims::add_sim): the two engines whose impl Sim has
\* bounds() and set_bounds() of the trait in cells/mod.rs.  main.rs adds
\* "leddoo atomic" after three engines that implement the trait without
\* bounds() and set_bounds(), which Sims::set_sim and update cannot drive.
SimNames == <<"leddoo atomic", "leddoo multi-threaded">>

\* self.sims.len()
SimCount == Len(SimNames)

\* usize::MAX as the index of no simulator
usize_MAX == SimCount + 1

\* CellRenderer::new()
CellRenderer_new == [bounds |-> 0, values |-> <<>>, neighbors |-> <<>>]

\* CellRenderer::cell_count
CellRenderer_cell_count(self) == self.bounds * self.bounds * self.bounds

\* Vec::resize(new_len, 0)
Vec_resize(vec, new_len) ==
    [i \in 1..new_len |-> IF i <= Len(vec) THEN vec[i] ELSE 0]

\* CellRenderer::set_bounds
CellRenderer_set_bounds(self, new_bounds) ==
    IF new_bounds # self.bounds
    THEN LET new_count == new_bounds * new_bounds * new_bounds
         IN [bounds |-> new_bounds,
             values |-> Vec_resize(self.values, new_count),
             neighbors |-> Vec_resize(self.neighbors, new_count)]
    ELSE self

\* no history of a frame
NoHistory == [after_set_sim |-> <<>>, seeded |-> <<>>,
              update |-> [called |-> FALSE, values_ok |-> TRUE, counts_ok |-> TRUE,
                          rule |-> <<>>, sim |-> usize_MAX],
              loop_bounds |-> 0, instance_data |-> <<>>, previous_rule |-> <<>>]

\* Sims::new(), with the rule main.rs sets by set_example(0) before the first
\* frame (no simulator is active then, so set_example only stores the rule)
Sims_new == [active_sim |-> usize_MAX, bounds |-> 2 * CHUNK_SIZE,
             renderer |-> CellRenderer_new, frames |-> 0, panicked |-> FALSE,
             history |-> NoHistory]

-----------------------------------------------------------------------------

(* State.  The three engines are driven with the same operations, one engine
   after the other: LeddooAtomic, LeddooMultiThreaded, LeddooSingleThreaded.
   The driver keeps rule.bounding_size equal to the bound returned by
   set_bounds (as Sims keeps its bounds field) and sizes the single-threaded
   engine with it. *)

VARIABLES
    rule,      \* the Rule passed to the engines
    at,        \* LeddooAtomic
    mt,        \* LeddooMultiThreaded
    st,        \* LeddooSingleThreaded
    pc,        \* position of the driver / of the update() in progress
    op,        \* the operation in progress: kind, argument, value returned
    ops,       \* number of operations issued
    at_run,    \* LeddooAtomic::update: tasks, their lists and positions
    mt_run,    \* LeddooMultiThreaded::update: tasks and their lists
    pre,       \* history: values and counts of the engine as its update() began
    access,    \* history: accesses <<cell, chunk of the task, kind>> of Phase B
    agreed,    \* history: the three grids were equal when the operation began
    clean,     \* history, per engine: its last set_bounds left the grid all dead
    valid,     \* history, per engine: its counts were valid as spawn_noise was called
    probe,     \* a function called on its own: its name, arguments and outcome
    frame,     \* the render records and cell_count() of each engine, last render
    tantan,    \* the sparse simulations: tantan CellsSinglethreaded, CellsMultithreaded
    cm,        \* cells_multithreaded.rs: CellsMultithreaded and its spawned tasks
    sims       \* cells/sims.rs: Sims (its simulators are at and mt, its rule is rule)

vars == <<rule, at, mt, st, pc, op, ops, at_run, mt_run, pre, access, agreed, clean,
          valid, probe, frame, tantan, cm, sims>>

ChunksOf(count) == 0..(count - 1)

\* arguments of set_bounds
BoundRequests == 0..(2 * CHUNK_SIZE)

\* kind, argument n or draws, value returned; streak counts the update() calls
\* in a row that end with this one
NoOp == [kind |-> "none", n |-> 0, draws |-> <<>>, ret |-> 0, streak |-> 0]

NoAtRun == [value_done |-> {}, spawns |-> <<>>, deaths |-> <<>>,
            item |-> <<>>, k |-> <<>>, tmp |-> <<>>]

NoMtRun == [value_done |-> {}, chunk_spawns |-> <<>>, chunk_deaths |-> <<>>,
            out_spawns |-> <<>>, out_deaths |-> <<>>,
            spawns |-> <<>>, deaths |-> <<>>, item |-> <<>>]

NoPre == [values |-> <<>>, neighbors |-> <<>>]

NoProbe == [fn |-> "none", arg |-> <<>>, out |-> <<>>]

NoFrame == [rendered |-> FALSE, at |-> <<>>, mt |-> <<>>, st |-> <<>>,
            cell_count |-> [at |-> 0, mt |-> 0, st |-> 0]]

\* the cell <<value, count>> of each engine at a lattice position
at_cell_at(pos) ==
    LET i == pos_to_index(pos, at_bounds(at)) IN <<at.values[i], at.neighbors[i]>>

mt_cell_at(pos) ==
    LET i == pos_to_index_ex(pos, mt.chunk_radius)
    IN <<mt.values[index_to_chunk_index(i)][index_to_chunk_offset(i)],
         mt.neighbours[index_to_chunk_index(i)][index_to_chunk_offset(i)]>>

st_cell_at(pos) ==
    LET i == vec_to_index(st, pos) IN <<st.values[i], st.neighbors[i]>>

\* every cell of the engine dead, every count zero
at_all_dead(self) ==
    \A i \in DOMAIN self.values : self.values[i] = 0 /\ self.neighbors[i] = 0

mt_all_dead(self) ==
    \A c \in DOMAIN self.values : \A o \in DOMAIN self.values[c] :
        self.values[c][o] = 0 /\ self.neighbours[c][o] = 0

st_all_dead(self) ==
    \A i \in DOMAIN self.values : self.values[i] = 0 /\ self.neighbors[i] = 0

Lattice(bounds) == (0..(bounds - 1)) \X (0..(bounds - 1)) \X (0..(bounds - 1))

\* the three engines have the same bound and hold the same cell at every
\* lattice position
EnginesAgree ==
    /\ mt_bounds(mt) = at_bounds(at)
    /\ st.size = at_bounds(at)
    /\ \A pos \in Lattice(at_bounds(at)) :
          /\ mt_cell_at(pos) = at_cell_at(pos)
          /\ st_cell_at(pos) = at_cell_at(pos)

\* the number of directions of the rule's topology in which the cell at
\* pos has a neighbour (wrapped) at full value
FullNeighbours(cell_at(_), bounds, pos) ==
    LET dirs == get_neighbour_iter(rule.neighbour_method)
    IN Cardinality({k \in DOMAIN dirs :
           cell_at(wrap(vadd(pos, dirs[k]), bounds))[1] = rule.states})

\* every cached count of the grid equals the brute-force count
CountsValid(cell_at(_), bounds) ==
    \A pos \in Lattice(bounds) : cell_at(pos)[2] = FullNeighbours(cell_at, bounds, pos)

at_counts_valid == CountsValid(at_cell_at, at_bounds(at))

mt_counts_valid == CountsValid(mt_cell_at, mt_bounds(mt))

st_counts_valid == CountsValid(st_cell_at, st.size)

Init ==
    /\ rule \in Rules
    /\ at = at_new
    /\ mt = mt_new
    /\ st = st_new
    /\ pc = "idle"
    /\ op = NoOp
    /\ ops = 0
    /\ at_run = NoAtRun
    /\ mt_run = NoMtRun
    /\ pre = NoPre
    /\ access = {}
    /\ agreed = TRUE
    /\ clean = [at |-> TRUE, mt |-> TRUE, st |-> TRUE]
    /\ valid = [at |-> FALSE, mt |-> FALSE, st |-> FALSE]
    /\ probe = NoProbe
    /\ frame = NoFrame
    /\ tantan = tantan_new
    /\ cm = NoCm
    /\ sims = Sims_new

\* the driver issues the next operation
Issue(kind, n, draws, ret) ==
    /\ pc = "idle"
    /\ ops < MaxOps
    /\ ops' = ops + 1
    /\ op' = [kind |-> kind, n |-> n, draws |-> draws, ret |-> ret,
              streak |-> IF kind = "update" THEN op.streak + 1 ELSE 0]
    /\ agreed' = EnginesAgree
    /\ valid' = IF kind = "spawn_noise"
                THEN [at |-> at_counts_valid, mt |-> mt_counts_valid,
                      st |-> st_counts_valid]
                ELSE [at |-> FALSE, mt |-> FALSE, st |-> FALSE]
    /\ frame' = NoFrame
    /\ UNCHANGED <<tantan, cm, sims>>
    /\ UNCHANGED probe

-----------------------------------------------------------------------------
(* set_bounds *)

\* LeddooAtomic::set_bounds(n)
AtSetBounds(n) ==
    /\ Issue("set_bounds", n, <<>>, at_set_bounds_result(n))
    /\ at' = at_set_bounds(at, n)
    /\ clean' = [clean EXCEPT !.at = at_all_dead(at')]
    /\ pc' = "mt"
    /\ UNCHANGED <<rule, mt, st, at_run, mt_run, pre, access>>

\* LeddooMultiThreaded::set_bounds(n)
MtSetBounds ==
    /\ pc = "mt" /\ op.kind = "set_bounds"
    /\ mt' = mt_set_bounds(mt, op.n)
    /\ clean' = [clean EXCEPT !.mt = mt_all_dead(mt')]
    /\ pc' = "st"
    /\ UNCHANGED <<rule, at, st, op, ops, at_run, mt_run, pre, access, agreed, valid,
                   probe, frame, tantan, cm, sims>>

\* rule.bounding_size = bounds; LeddooSingleThreaded::set_size(bounds)
StSetSize ==
    /\ pc = "st" /\ op.kind = "set_bounds"
    /\ rule' = [rule EXCEPT !.bounding_size = op.ret]
    /\ st' = set_size(st, op.ret)
    /\ clean' = [clean EXCEPT !.st = st_all_dead(st')]
    /\ pc' = "idle"
    /\ UNCHANGED <<at, mt, op, ops, at_run, mt_run, pre, access, agreed, valid, probe, frame, tantan, cm, sims>>

-----------------------------------------------------------------------------
(* spawn_noise.  On an empty grid utils::wrap divides by zero. *)

\* LeddooAtomic::spawn_noise
AtSpawnNoise(draws) ==
    /\ Issue("spawn_noise", 0, draws, 0)
    /\ IF at_bounds(at) = 0
       THEN pc' = "panicked" /\ at' = at
       ELSE pc' = "mt" /\ at' = at_spawn_noise(at, rule, draws)
    /\ UNCHANGED <<rule, mt, st, at_run, mt_run, pre, access, clean>>

\* LeddooMultiThreaded::spawn_noise
MtSpawnNoise ==
    /\ pc = "mt" /\ op.kind = "spawn_noise"
    /\ IF mt_bounds(mt) = 0
       THEN pc' = "panicked" /\ mt' = mt
       ELSE pc' = "st" /\ mt' = mt_spawn_noise(mt, rule, op.draws)
    /\ UNCHANGED <<rule, at, st, op, ops, at_run, mt_run, pre, access, agreed, clean,
                   valid, probe, frame, tantan, cm, sims>>

\* LeddooSingleThreaded::spawn_noise
StSpawnNoise ==
    /\ pc = "st" /\ op.kind = "spawn_noise"
    /\ IF st.size = 0
       THEN pc' = "panicked" /\ st' = st
       ELSE pc' = "idle" /\ st' = st_spawn_noise(st, rule, op.draws)
    /\ UNCHANGED <<rule, at, mt, op, ops, at_run, mt_run, pre, access, agreed, clean,
                   valid, probe, frame, tantan, cm, sims>>

-----------------------------------------------------------------------------
(* LeddooAtomic::update *)

\* the cells scanned by the value task of a chunk
at_chunk_cells(chunk_index) ==
    {at_chunk_cell_index(chunk_index, at.chunk_radius, at_bounds(at), o) :
        o \in 0..(CHUNK_CELL_COUNT - 1)}

\* the value task of chunk c finds no cell to change and none that panics: its
\* run leaves values, spawns and deaths as they are
at_value_task_idle(c) ==
    \A i \in at_chunk_cells(c) :
        /\ ~in_range_panics(at.values[i], at.neighbors[i], rule)
        /\ update_value(at.values[i], at.neighbors[i], rule) = at.values[i]

\* for chunk_index in 0..self.chunk_count { value_tasks.push(tasks.spawn(..)) }
\* A task that has nothing to change is taken as completed when it is spawned
\* (its run commutes with every other step and changes nothing).
AtSpawnValueTasks ==
    /\ Issue("update", 0, <<>>, 0)
    /\ pc' = "at_values"
    /\ at_run' = [value_done |-> {c \in ChunksOf(at.chunk_count) : at_value_task_idle(c)},
                  spawns |-> [c \in ChunksOf(at.chunk_count) |-> <<>>],
                  deaths |-> [c \in ChunksOf(at.chunk_count) |-> <<>>],
                  item   |-> [c \in ChunksOf(at.chunk_count) |-> 1],
                  k      |-> [c \in ChunksOf(at.chunk_count) |-> 1],
                  tmp    |-> [c \in ChunksOf(at.chunk_count) |-> -1]]
    /\ pre' = [values |-> at.values, neighbors |-> at.neighbors]
    /\ access' = {}
    /\ UNCHANGED <<rule, at, mt, st, mt_run, clean>>

\* the value task of one chunk: Self::update_values(..); (chunk_spawns, chunk_deaths)
AtValueTask(c) ==
    /\ pc \in {"at_values", "at_neighbors"}
    /\ c \in ChunksOf(at.chunk_count)
    /\ c \notin at_run.value_done
    /\ IF \E i \in at_chunk_cells(c) : in_range_panics(at.values[i], at.neighbors[i], rule)
       THEN pc' = "panicked" /\ UNCHANGED <<at, at_run>>
       ELSE LET r == at_update_values(at.values, at.neighbors, c,
                                      at.chunk_radius, at_bounds(at), rule)
            IN /\ at' = [at EXCEPT !.values = r.values]
               /\ at_run' = [at_run EXCEPT !.value_done = @ \cup {c},
                                           !.spawns[c] = r.spawns,
                                           !.deaths[c] = r.deaths]
               /\ pc' = pc
    /\ UNCHANGED <<rule, mt, st, op, ops, mt_run, pre, access, agreed, clean, valid, probe,
                   frame, tantan, cm, sims>>

\* (variant) the value tasks are not waited for
at_values_not_awaited == TRUE

\* for task in value_tasks { future::block_on(task) } has returned
at_values_joined == at_run.value_done = ChunksOf(at.chunk_count)

\* value tasks joined; for (spawns, deaths) in .. { neighbor_tasks.push(tasks.spawn(..)) }
AtSpawnNeighborTasks ==
    /\ pc = "at_values"
    /\ at_values_joined
    /\ pc' = "at_neighbors"
    /\ UNCHANGED <<rule, at, mt, st, op, ops, at_run, mt_run, pre, access, agreed, clean,
                   valid, probe, frame, tantan, cm, sims>>

\* the sources a neighbor task works through: its spawns, then its deaths
at_task_items(c) == at_run.spawns[c] \o at_run.deaths[c]

\* the neighbor task of chunk c has run to its end
at_task_finished(c) == at_run.item[c] > Len(at_task_items(c))

\* one memory access of the neighbor task of chunk c, inside
\* Self::update_neighbors(&neighbors, *index, bounds, &rule, inc): a
\* fetch_add/fetch_sub on the atomic branch; the load, then the store, of
\* `*neighbors += 1` / `*neighbors -= 1` on the plain branch
AtNeighborTaskStep(c) ==
    /\ pc = "at_neighbors"
    /\ c \in ChunksOf(at.chunk_count)
    /\ ~at_task_finished(c)
    /\ LET index  == at_task_items(c)[at_run.item[c]]
           inc    == at_run.item[c] <= Len(at_run.spawns[c])
           bounds == at_bounds(at)
           last   == at_run.k[c] = Len(get_neighbour_iter(rule.neighbour_method))
           ni     == at_neighbor_index(index, bounds, rule, at_run.k[c])
           advance(run) == IF last
                           THEN [run EXCEPT !.item[c] = @ + 1, !.k[c] = 1]
                           ELSE [run EXCEPT !.k[c] = @ + 1]
       IN IF at_access_is_atomic(index, bounds)
          THEN /\ at' = [at EXCEPT !.neighbors[ni] = IF inc THEN u8_inc(@) ELSE u8_dec(@)]
               /\ at_run' = advance(at_run)
               /\ access' = access \cup {<<ni, c, "atomic">>}
          ELSE IF at_run.tmp[c] = -1
          THEN /\ at_run' = [at_run EXCEPT !.tmp[c] = at.neighbors[ni]]
               /\ access' = access \cup {<<ni, c, "plain">>}
               /\ at' = at
          ELSE /\ at' = [at EXCEPT !.neighbors[ni] =
                            IF inc THEN u8_inc(at_run.tmp[c]) ELSE u8_dec(at_run.tmp[c])]
               /\ at_run' = advance([at_run EXCEPT !.tmp[c] = -1])
               /\ access' = access
    /\ UNCHANGED <<rule, mt, st, pc, op, ops, mt_run, pre, agreed, clean, valid, probe, frame, tantan, cm, sims>>

\* for task in neighbor_tasks { future::block_on(task) } has returned
at_neighbors_joined == \A c \in ChunksOf(at.chunk_count) : at_task_finished(c)

\* neighbor tasks joined; update() returns
AtUpdateReturn ==
    /\ pc = "at_neighbors"
    /\ at_neighbors_joined
    /\ pc' = "mt"
    /\ at_run' = NoAtRun
    /\ pre' = NoPre
    /\ access' = {}
    /\ UNCHANGED <<rule, at, mt, st, op, ops, mt_run, agreed, clean, valid, probe, frame, tantan, cm, sims>>

-----------------------------------------------------------------------------
(* LeddooMultiThreaded::update.  Each task owns the chunk moved into it; the
   chunk is kept at its place in mt while the task holds it. *)

\* the value task of chunk c finds no cell to change and none that panics
mt_value_task_idle(c) ==
    \A o \in 0..(CHUNK_CELL_COUNT - 1) :
        /\ ~in_range_panics(mt.values[c][o], mt.neighbours[c][o], rule)
        /\ update_value(mt.values[c][o], mt.neighbours[c][o], rule) = mt.values[c][o]

\* for (chunk_index, chunk) in chunks.into_iter().enumerate() { value_tasks.push(..) }
\* A task that has nothing to change is taken as completed when it is spawned.
MtSpawnValueTasks ==
    /\ pc = "mt" /\ op.kind = "update"
    /\ pc' = "mt_values"
    /\ mt_run' = [value_done   |-> {c \in ChunksOf(mt.chunk_count) : mt_value_task_idle(c)},
                  chunk_spawns |-> [c \in ChunksOf(mt.chunk_count) |-> <<>>],
                  chunk_deaths |-> [c \in ChunksOf(mt.chunk_count) |-> <<>>],
                  out_spawns   |-> [c \in ChunksOf(mt.chunk_count) |-> <<>>],
                  out_deaths   |-> [c \in ChunksOf(mt.chunk_count) |-> <<>>],
                  spawns |-> <<>>, deaths |-> <<>>,
                  item   |-> [c \in ChunksOf(mt.chunk_count) |-> 1]]
    /\ pre' = [values |-> mt.values, neighbors |-> mt.neighbours]
    /\ UNCHANGED <<rule, at, mt, st, op, ops, at_run, access, agreed, clean, valid, probe,
                   frame, tantan, cm, sims>>

\* the value task of one chunk: Self::update_values_chunk(..)
MtValueTask(c) ==
    /\ pc \in {"mt_values", "mt_neighbours"}
    /\ c \in ChunksOf(mt.chunk_count)
    /\ c \notin mt_run.value_done
    /\ IF \E o \in 0..(CHUNK_CELL_COUNT - 1) :
             in_range_panics(mt.values[c][o], mt.neighbours[c][o], rule)
       THEN pc' = "panicked" /\ UNCHANGED <<mt, mt_run>>
       ELSE LET r == update_values_chunk(mt.values[c], mt.neighbours[c], c, rule)
            IN /\ mt' = [mt EXCEPT !.values[c] = r.values]
               /\ mt_run' = [mt_run EXCEPT !.value_done = @ \cup {c},
                                           !.chunk_spawns[c] = r.chunk_spawns,
                                           !.chunk_deaths[c] = r.chunk_deaths,
                                           !.out_spawns[c] = r.spawns,
                                           !.out_deaths[c] = r.deaths]
               /\ pc' = pc
    /\ UNCHANGED <<rule, at, st, op, ops, at_run, pre, access, agreed, clean, valid, probe,
                   frame, tantan, cm, sims>>

\* for task in value_tasks { .. future::block_on(task) .. } has returned
mt_values_joined == mt_run.value_done = ChunksOf(mt.chunk_count)

\* spawns.extend(out_spawns) over the tasks in the order of the chunks
RECURSIVE Extend(_, _)
Extend(lists, c) ==
    IF c \notin DOMAIN lists THEN <<>> ELSE lists[c] \o Extend(lists, c + 1)

\* value tasks joined and their lists collected; neighbour tasks spawned
MtSpawnNeighbourTasks ==
    /\ pc = "mt_values"
    /\ mt_values_joined
    /\ pc' = "mt_neighbours"
    /\ mt_run' = [mt_run EXCEPT !.spawns = Extend(mt_run.out_spawns, 0),
                                !.deaths = Extend(mt_run.out_deaths, 0)]
    /\ UNCHANGED <<rule, at, mt, st, op, ops, at_run, pre, access, agreed, clean, valid,
                   probe, frame, tantan, cm, sims>>

\* the offsets a neighbour task works through: its spawns, then its deaths
mt_task_items(c) == mt_run.chunk_spawns[c] \o mt_run.chunk_deaths[c]

\* the neighbour task of chunk c has run to its end
mt_task_finished(c) == mt_run.item[c] > Len(mt_task_items(c))

\* one Self::update_neighbors_chunk(&mut chunk, &rule, offset, inc) of the
\* neighbour task of chunk c
MtNeighbourTaskStep(c) ==
    /\ pc = "mt_neighbours"
    /\ c \in ChunksOf(mt.chunk_count)
    /\ ~mt_task_finished(c)
    /\ LET offset == mt_task_items(c)[mt_run.item[c]]
           inc    == mt_run.item[c] <= Len(mt_run.chunk_spawns[c])
       IN mt' = [mt EXCEPT !.neighbours[c] = update_neighbors_chunk(@, rule, offset, inc)]
    /\ mt_run' = [mt_run EXCEPT !.item[c] = @ + 1]
    /\ UNCHANGED <<rule, at, st, pc, op, ops, at_run, pre, access, agreed, clean, valid,
                   probe, frame, tantan, cm, sims>>

\* for task in neighbour_tasks { .. future::block_on(task) .. } has returned
mt_neighbours_joined == \A c \in ChunksOf(mt.chunk_count) : mt_task_finished(c)

\* neighbour tasks joined; the serial pass over spawns and deaths; update() returns
MtUpdateNeighborsSerial ==
    /\ pc = "mt_neighbours"
    /\ mt_neighbours_joined
    /\ mt' = [mt EXCEPT !.neighbours =
                 mt_patch(@, mt_targets(mt, rule, mt_run.spawns),
                             mt_targets(mt, rule, mt_run.deaths))]
    /\ mt_run' = NoMtRun
    /\ pre' = NoPre
    /\ pc' = "st"
    /\ UNCHANGED <<rule, at, st, op, ops, at_run, access, agreed, clean, valid, probe, frame, tantan, cm, sims>>

-----------------------------------------------------------------------------
(* LeddooSingleThreaded::update *)

StUpdate ==
    /\ pc = "st" /\ op.kind = "update"
    /\ LET s0 == set_size(st, rule.bounding_size)
       IN IF \E i \in DOMAIN s0.values :
                in_range_panics(s0.values[i], s0.neighbors[i], rule)
          THEN pc' = "panicked" /\ st' = s0
          ELSE pc' = "render" /\ st' = st_update(st, rule)
    /\ UNCHANGED <<rule, at, mt, op, ops, at_run, mt_run, pre, access, agreed, clean,
                   valid, probe, frame, tantan, cm, sims>>

-----------------------------------------------------------------------------
(* Render extraction: sim.render and cell_count() *)

vsub(p, q) == <<p[1] - q[1], p[2] - q[2], p[3] - q[3]>>

\* LeddooSingleThreaded::cell_count
st_cell_count(self) == Cardinality({i \in DOMAIN self.values : self.values[i] # 0})

\* LeddooMultiThreaded::cell_count
mt_cell_count(self) ==
    Cardinality({co \in (DOMAIN self.values) \X (0..(CHUNK_CELL_COUNT - 1)) :
                    self.values[co[1]][co[2]] # 0})

\* LeddooAtomic::cell_count
at_cell_count(self) ==
    Cardinality({i \in 0..(at_total_cell_count(self) - 1) : ~cell_is_dead(self.values[i])})

\* InstanceData of one cell: the position relative to the centre and the
\* value and count its colour is computed from
InstanceData(pos, c, value, neighbors) ==
    [position |-> vsub(pos, c), value |-> value, neighbors |-> neighbors]

\* (variant) only the cells at full value are rendered
st_render_full_only(self, rule_) ==
    LET live == Ascending({i \in DOMAIN self.values : self.values[i] = rule_.states})
    IN [k \in DOMAIN live |->
           InstanceData(index_to_vec(self, live[k]), center(rule_.bounding_size),
                        self.values[live[k]], self.neighbors[live[k]])]

\* LeddooSingleThreaded::render: one record per cell that is not dead, in
\* index order
st_render(self, rule_) ==
    LET live == Ascending({i \in DOMAIN self.values : self.values[i] # 0})
    IN [k \in DOMAIN live |->
           InstanceData(index_to_vec(self, live[k]), center(rule_.bounding_size),
                        self.values[live[k]], self.neighbors[live[k]])]

\* LeddooMultiThreaded::render: chunk by chunk, cell by cell
mt_render(self, rule_) ==
    LET live == Ascending({co[1] * CHUNK_CELL_COUNT + co[2] :
                    co \in {co \in (DOMAIN self.values) \X (0..(CHUNK_CELL_COUNT - 1)) :
                               self.values[co[1]][co[2]] # 0}})
        cell(i) == <<index_to_chunk_index(i), index_to_chunk_offset(i)>>
    IN [k \in DOMAIN live |->
           InstanceData(index_to_pos_ex(live[k], self.chunk_radius), mt_center(self),
                        self.values[cell(live[k])[1]][cell(live[k])[2]],
                        self.neighbours[cell(live[k])[1]][cell(live[k])[2]])]

\* LeddooAtomic render: renderer.set(index, value, neighbors) for every index
at_render(self) ==
    [bounds |-> at_bounds(self), values |-> self.values, neighbors |-> self.neighbors]

\* Sims update: the instance data of the renderer's cells with value != 0
instance_data(renderer) ==
    LET live == Ascending({i \in DOMAIN renderer.values : renderer.values[i] # 0})
    IN [k \in DOMAIN live |->
           InstanceData(index_to_pos(live[k], renderer.bounds), center(renderer.bounds),
                        renderer.values[live[k]], renderer.neighbors[live[k]])]

\* sim.render(..) of each engine after its update, and cell_count()
Render ==
    /\ pc = "render"
    /\ pc' = "idle"
    /\ frame' = [rendered |-> TRUE,
                 at |-> instance_data(at_render(at)),
                 mt |-> mt_render(mt, rule),
                 st |-> st_render(st, rule),
                 cell_count |-> [at |-> at_cell_count(at), mt |-> mt_cell_count(mt),
                                 st |-> st_cell_count(st)]]
    /\ UNCHANGED <<rule, at, mt, st, op, ops, at_run, mt_run, pre, access, agreed, clean,
                   valid, probe, tantan, cm, sims>>

-----------------------------------------------------------------------------

Next ==
    \/ \E n \in BoundRequests : AtSetBounds(n)
    \/ MtSetBounds
    \/ StSetSize
    \/ \E draws \in NoiseDraws : AtSpawnNoise(draws)
    \/ MtSpawnNoise
    \/ StSpawnNoise
    \/ AtSpawnValueTasks
    \/ \E c \in ChunksOf(at.chunk_count) : AtValueTask(c)
    \/ AtSpawnNeighborTasks
    \/ \E c \in ChunksOf(at.chunk_count) : AtNeighborTaskStep(c)
    \/ AtUpdateReturn
    \/ MtSpawnValueTasks
    \/ \E c \in ChunksOf(mt.chunk_count) : MtValueTask(c)
    \/ MtSpawnNeighbourTasks
    \/ \E c \in ChunksOf(mt.chunk_count) : MtNeighbourTaskStep(c)
    \/ MtUpdateNeighborsSerial
    \/ StUpdate
    \/ Render

Spec == Init /\ [][Next]_vars

-----------------------------------------------------------------------------
(* Properties *)

\* C1: neighbor-count invariant.  For each engine whose last set_bounds left
\* an all-dead grid with all counts 0, whenever an update() or a spawn_noise()
\* of the engine has completed, every cell's cached count equals the number of
\* directions of the rule's topology whose wrapped neighbour is at full value.
C1_NeighborCountInvariant ==
    /\ (pc = "mt" /\ op.kind \in {"update", "spawn_noise"} /\ clean.at) => at_counts_valid
    /\ (pc = "st" /\ op.kind \in {"update", "spawn_noise"} /\ clean.mt) => mt_counts_valid
    /\ (pc = "idle" /\ op.kind \in {"update", "spawn_noise"} /\ clean.st) => st_counts_valid

\* an update has completed in the three engines on a grid of two chunks per
\* axis that started all dead, and has left cells at full value and cells
\* below it, with counts above zero
C1_Witness ==
    /\ pc = "idle" /\ op.kind = "update"
    /\ clean.at /\ clean.mt /\ clean.st
    /\ at.chunk_radius = 2 /\ mt.chunk_radius = 2 /\ st.size = 2 * CHUNK_SIZE
    /\ \E i \in DOMAIN at.values : at.values[i] = rule.states /\ at.neighbors[i] > 0
    /\ \E i \in DOMAIN st.values : st.values[i] = rule.states /\ st.neighbors[i] > 0
    /\ \E c \in DOMAIN mt.values : \E o \in DOMAIN mt.values[c] :
          mt.values[c][o] = rule.states /\ mt.neighbours[c][o] > 0

\* C2: strategy equivalence.  When the three engines held the same bound and
\* the same value and count at every lattice position as an update() was
\* issued, they hold the same value and count at every lattice position when
\* the update() has completed in the three of them, whatever the order in
\* which the parallel tasks ran (by induction: after any number of updates).
C2_StrategyEquivalence ==
    (pc = "idle" /\ op.kind = "update" /\ agreed) => EnginesAgree

\* the second update() in a row has completed on equal grids of two chunks per
\* axis, with cells alive
C2_Witness ==
    /\ pc = "idle" /\ op.kind = "update" /\ op.streak >= 2 /\ agreed
    /\ at.chunk_radius = 2
    /\ \E i \in DOMAIN at.values : at.values[i] > 0
    /\ EnginesAgree

\* the new value the transition rule gives a cell of value v and count n
PhaseA(v, n) ==
    IF v = 0 THEN (IF rule.birth_rule[n] THEN rule.states ELSE 0)
    ELSE IF v = rule.states /\ rule.survival_rule[n] THEN rule.states
    ELSE v - 1

\* all value tasks of LeddooAtomic::update have completed, no neighbor task
\* is spawned yet
AtPhaseADone == pc = "at_values" /\ at_run.value_done = ChunksOf(at.chunk_count)

\* a step that is one whole LeddooSingleThreaded::update
StUpdateStep == pc = "st" /\ op.kind = "update" /\ pc' = "render"

\* C3: Phase A transition rule.  In one update(), the new value of every cell
\* is PhaseA(v, n) of its own old value v and own old count n: a dead cell is
\* born exactly when n is in the birth set, a full-value cell is kept exactly
\* when n is in the survival set, every other cell goes to v - 1.
C3_PhaseATransition ==
    [][ /\ (AtPhaseADone /\ pc' = "at_neighbors") =>
               \A i \in DOMAIN at.values :
                   at.values[i] = PhaseA(pre.values[i], pre.neighbors[i])
        /\ StUpdateStep =>
               \A i \in DOMAIN st.values :
                   st'.values[i] = PhaseA(st.values[i], st.neighbors[i]) ]_vars

\* Phase A has completed with a cell born, a full-value cell kept and a
\* full-value cell decremented
C3_Witness ==
    /\ AtPhaseADone
    /\ \E i \in DOMAIN at.values : pre.values[i] = 0 /\ at.values[i] = rule.states
    /\ \E i \in DOMAIN at.values : pre.values[i] = rule.states /\ at.values[i] = rule.states
    /\ \E i \in DOMAIN at.values :
          pre.values[i] = rule.states /\ at.values[i] = rule.states - 1

\* C4: decay monotonicity.  Over one update(): a cell with 0 < v < states
\* goes to v - 1 whatever its count; a cell with v > 0 is never raised, it is
\* kept or goes to v - 1, and a cell that leaves full value goes to states - 1
\* (so it is at 0 exactly states ticks after its last full-value tick); a
\* cell whose value rises had value 0.
DecayStep(v, w) ==
    /\ (0 < v /\ v < rule.states) => w = v - 1
    /\ v > 0 => (w = v \/ w = v - 1)
    /\ (v = rule.states /\ w # v) => w = rule.states - 1
    /\ w > v => (v = 0 /\ w = rule.states)

C4_DecayMonotonicity ==
    [][ /\ (AtPhaseADone /\ pc' = "at_neighbors") =>
               \A i \in DOMAIN at.values : DecayStep(pre.values[i], at.values[i])
        /\ StUpdateStep =>
               \A i \in DOMAIN st.values : DecayStep(st.values[i], st'.values[i]) ]_vars

\* Phase A has completed with a cell that was below full value and above 0,
\* with a count in the birth set, and has been decremented to 0
C4_Witness ==
    /\ AtPhaseADone
    /\ rule.states >= 2
    /\ \E i \in DOMAIN at.values :
          /\ 0 < pre.values[i] /\ pre.values[i] < rule.states
          /\ rule.birth_rule[pre.neighbors[i]]
          /\ at.values[i] = pre.values[i] - 1
          /\ at.values[i] = 0

\* a step of a Phase B task of LeddooAtomic::update / LeddooMultiThreaded::update
AtPhaseBStep == at_run'.item # at_run.item \/ at_run'.k # at_run.k \/ at_run'.tmp # at_run.tmp

MtPhaseBStep == mt_run'.item # mt_run.item

\* every task of the phase has run to its end
AtPhaseAComplete == at_run.value_done = ChunksOf(at.chunk_count)

AtPhaseBComplete ==
    \A c \in ChunksOf(at.chunk_count) :
        at_run.item[c] = Len(at_run.spawns[c]) + Len(at_run.deaths[c]) + 1

MtPhaseAComplete == mt_run.value_done = ChunksOf(mt.chunk_count)

MtPhaseBComplete ==
    \A c \in ChunksOf(mt.chunk_count) :
        mt_run.item[c] = Len(mt_run.chunk_spawns[c]) + Len(mt_run.chunk_deaths[c]) + 1

\* C5: phase barrier ordering.  In an update() of a chunk-parallel engine the
\* Phase B tasks are spawned, and take their steps, only when every chunk's
\* Phase A value task has completed; and update() returns only when every
\* Phase B task has completed.
C5_PhaseBarriers ==
    [][ /\ (pc = "at_values" /\ pc' = "at_neighbors") => AtPhaseAComplete
        /\ (pc \in {"at_values", "at_neighbors"} /\ pc' = pc /\ AtPhaseBStep)
               => AtPhaseAComplete
        /\ (pc = "at_neighbors" /\ pc' = "mt") => AtPhaseBComplete
        /\ (pc = "mt_values" /\ pc' = "mt_neighbours") => MtPhaseAComplete
        /\ (pc \in {"mt_values", "mt_neighbours"} /\ pc' = pc /\ MtPhaseBStep)
               => MtPhaseAComplete
        /\ (pc = "mt_neighbours" /\ pc' = "st") => MtPhaseBComplete ]_vars

\* Phase B of the atomic engine is under way after value tasks of two chunks
\* did work: the neighbor task of one chunk has run to its end, that of
\* another has started and has not
C5_Witness ==
    /\ pc = "at_neighbors"
    /\ \E c1, c2 \in ChunksOf(at.chunk_count) :
          /\ c1 # c2
          /\ at_task_items(c1) # <<>> /\ at_task_finished(c1)
          /\ at_task_items(c2) # <<>> /\ ~at_task_finished(c2)
          /\ (at_run.item[c2] > 1 \/ at_run.k[c2] > 1)

\* the lists of all chunks of the update() in progress
AtAllSpawns == Extend(at_run.spawns, 0)

AtAllDeaths == Extend(at_run.deaths, 0)

\* the cell at wrap(pos + d) for the source cell at index and direction k
WrappedNeighbour(index, k) ==
    LET b == at_bounds(at)
        dir == get_neighbour_iter(rule.neighbour_method)[k]
    IN pos_to_index(wrap(vadd(index_to_pos(index, b), dir), b), b)

\* C6: no lost or duplicated boundary update.  When every Phase B task of the
\* atomic engine has run to its end, the count of every cell is its count at
\* the start of update() plus one for every (spawned cell, direction) whose
\* wrapped neighbour it is, minus one for every (cell recorded in deaths,
\* direction) whose wrapped neighbour it is, for every interleaving of the
\* tasks.
C6_NoLostUpdate ==
    (pc = "at_neighbors" /\ AtPhaseBComplete) =>
        LET incs == targets_of(AtAllSpawns, rule, WrappedNeighbour)
            decs == targets_of(AtAllDeaths, rule, WrappedNeighbour)
        IN \A j \in DOMAIN at.neighbors :
               at.neighbors[j] =
                   pre.neighbors[j] + Occurrences(incs, j) - Occurrences(decs, j)

\* the chunk of the atomic engine that holds the cell at index
ChunkOfCell(index) ==
    LET pos == index_to_pos(index, at_bounds(at))
    IN pos_to_index(<<pos[1] \div CHUNK_SIZE, pos[2] \div CHUNK_SIZE,
                      pos[3] \div CHUNK_SIZE>>, at.chunk_radius)

\* Phase B has completed on a grid of two chunks per axis where a source on a
\* chunk face had a neighbour across the toroidal seam in another chunk, and
\* tasks of two chunks changed the count of one cell
C6_Witness ==
    /\ pc = "at_neighbors" /\ AtPhaseBComplete
    /\ at.chunk_radius = 2
    /\ \E h \in DOMAIN AtAllDeaths : \E k \in DOMAIN get_neighbour_iter(rule.neighbour_method) :
          LET src == AtAllDeaths[h]
              pos == vadd(index_to_pos(src, at_bounds(at)),
                          get_neighbour_iter(rule.neighbour_method)[k])
          IN /\ wrap(pos, at_bounds(at)) # pos
             /\ ChunkOfCell(WrappedNeighbour(src, k)) # ChunkOfCell(src)
    /\ \E a, b \in access : a[1] = b[1] /\ a[2] # b[2]

\* C7: race freedom of Phase B of the atomic engine.  Over one Phase B, a cell
\* that receives a plain (non-atomic) access is accessed by the task of one
\* chunk only; so a cell accessed by the tasks of two chunks is accessed
\* through fetch_add/fetch_sub only.
C7_RaceFreedom ==
    (pc = "at_neighbors" /\ AtPhaseBComplete) =>
        \A a \in access :
            a[3] = "plain" => \A b \in access : b[1] = a[1] => b[2] = a[2]

\* Phase B has completed with a cell written by the tasks of two chunks and a
\* cell written plainly
C7_Witness ==
    /\ pc = "at_neighbors" /\ AtPhaseBComplete
    /\ \E a, b \in access : a[1] = b[1] /\ a[2] # b[2] /\ a[3] = "atomic" /\ b[3] = "atomic"
    /\ \E a \in access : a[3] = "plain"

\* the lattice positions a spawn_noise call visits on a grid of the given bound
Visited(draws, bounds) ==
    {wrap(vadd(center(bounds), draws[k]), bounds) : k \in DOMAIN draws}

\* the value spawn_noise leaves in a cell of value v at pos
NoiseValue(v, pos, draws, bounds) ==
    IF v = 0 /\ pos \in Visited(draws, bounds) THEN rule.states ELSE v

\* a step that is one whole spawn_noise of an engine, returning normally
AtNoiseStep == pc = "idle" /\ pc' = "mt" /\ op'.kind = "spawn_noise"

MtNoiseStep == pc = "mt" /\ pc' = "st" /\ op.kind = "spawn_noise"

StNoiseStep == pc = "st" /\ pc' = "idle" /\ op.kind = "spawn_noise"

\* C8: spawn_noise changes only cells that are dead when visited, and sets
\* these to states; a cell that is alive or decaying before the call keeps
\* its value, also when a position is drawn more than once (in each engine).
C8_NoiseFrame ==
    [][ /\ AtNoiseStep =>
               \A i \in DOMAIN at.values :
                   at'.values[i] = NoiseValue(at.values[i],
                       index_to_pos(i, at_bounds(at)), op'.draws, at_bounds(at))
        /\ MtNoiseStep =>
               \A c \in DOMAIN mt.values : \A o \in DOMAIN mt.values[c] :
                   mt'.values[c][o] = NoiseValue(mt.values[c][o],
                       index_to_pos_ex(c * CHUNK_CELL_COUNT + o, mt.chunk_radius),
                       op.draws, mt_bounds(mt))
        /\ StNoiseStep =>
               \A i \in DOMAIN st.values :
                   st'.values[i] = NoiseValue(st.values[i],
                       index_to_pos(i, st.size), op.draws, st.size) ]_vars

\* a spawn_noise call whose series repeats a position has completed in the
\* three engines and has visited a decaying cell, a full-value cell and a dead
\* cell
C8_Witness ==
    /\ pc = "idle" /\ op.kind = "spawn_noise" /\ rule.states >= 2
    /\ \E j, k \in DOMAIN op.draws : j # k /\ op.draws[j] = op.draws[k]
    /\ \E pos \in Visited(op.draws, at_bounds(at)) :
          0 < at_cell_at(pos)[1] /\ at_cell_at(pos)[1] < rule.states
    /\ \E pos \in Visited(op.draws, st.size) :
          0 < st_cell_at(pos)[1] /\ st_cell_at(pos)[1] < rule.states
    /\ \E pos \in Visited(op.draws, mt_bounds(mt)) :
          0 < mt_cell_at(pos)[1] /\ mt_cell_at(pos)[1] < rule.states

\* C9: spawn_noise preserves the neighbor-count invariant.  If every cached
\* count of an engine equals the brute-force count when its spawn_noise is
\* called, the same holds when the call returns, for series with repeated and
\* with wrapping positions.
C9_NoisePreservesCounts ==
    /\ (pc = "mt" /\ op.kind = "spawn_noise" /\ valid.at) => at_counts_valid
    /\ (pc = "st" /\ op.kind = "spawn_noise" /\ valid.mt) => mt_counts_valid
    /\ (pc = "idle" /\ op.kind = "spawn_noise" /\ valid.st) => st_counts_valid

\* a spawn_noise call has completed on a grid of two chunks per axis that
\* already held full-value cells with neighbours, with a series that draws
\* a position twice and positions beyond the grid, and the counts are valid
C9_Witness ==
    /\ pc = "idle" /\ op.kind = "spawn_noise" /\ ops >= 3
    /\ at.chunk_radius = 2 /\ st.size = 2 * CHUNK_SIZE
    /\ valid.at /\ valid.st
    /\ \E j, k \in DOMAIN op.draws : j # k /\ op.draws[j] = op.draws[k]
    /\ \E k \in DOMAIN op.draws :
          LET pos == vadd(center(st.size), op.draws[k]) IN wrap(pos, st.size) # pos
    /\ \E i \in DOMAIN at.values : at.values[i] = rule.states /\ at.neighbors[i] >= 2
    /\ at_counts_valid /\ st_counts_valid

\* C10: LeddooAtomic::set_bounds(n), n >= 0, returns the smallest multiple of
\* the chunk side that is >= n; afterwards bounds() is the value returned,
\* total_cell_count() is bounds()^3, and every cell is dead with count 0,
\* whatever the grid held before.
C10_AtSetBounds ==
    (pc = "mt" /\ op.kind = "set_bounds") =>
        /\ op.ret % CHUNK_SIZE = 0
        /\ op.ret >= op.n
        /\ op.ret - op.n < CHUNK_SIZE
        /\ at_bounds(at) = op.ret
        /\ at_total_cell_count(at) = op.ret * op.ret * op.ret
        /\ DOMAIN at.values = 0..(at_total_cell_count(at) - 1)
        /\ DOMAIN at.neighbors = 0..(at_total_cell_count(at) - 1)
        /\ \A i \in DOMAIN at.values : at.values[i] = 0 /\ at.neighbors[i] = 0

\* set_bounds has returned for an argument that is no multiple of the chunk
\* side, on an engine that held live cells (as the multi-threaded engine, not
\* yet resized, still does)
C10_Witness ==
    /\ pc = "mt" /\ op.kind = "set_bounds"
    /\ op.n % CHUNK_SIZE # 0 /\ op.n > CHUNK_SIZE
    /\ agreed
    /\ \E c \in DOMAIN mt.values : \E o \in DOMAIN mt.values[c] : mt.values[c][o] > 0

-----------------------------------------------------------------------------
(* set_bounds / set_size of the chunked and the single-threaded engine *)

\* a call of LeddooMultiThreaded::set_bounds
MtSetBoundsStep == pc = "mt" /\ op.kind = "set_bounds" /\ pc' = "st"

\* C11: whenever LeddooMultiThreaded::set_bounds changes the effective bound,
\* every cell of the new grid is dead with neighbour count 0 after the call.
C11_MtSetBoundsDiscards ==
    [][ (MtSetBoundsStep /\ mt_bounds(mt') # mt_bounds(mt)) => mt_all_dead(mt') ]_vars

\* a call of LeddooSingleThreaded::set_size
StSetSizeStep == pc = "st" /\ op.kind = "set_bounds" /\ pc' = "idle"

\* C12: LeddooSingleThreaded::set_size(n) with n different from the current
\* size leaves n^3 cells, all dead with count 0; with n equal to the current
\* size it leaves every value and count as it was.
C12_StSetSize ==
    [][ StSetSizeStep =>
          IF op.ret # st.size
          THEN /\ st'.size = op.ret
               /\ DOMAIN st'.values = 0..(op.ret * op.ret * op.ret - 1)
               /\ DOMAIN st'.neighbors = 0..(op.ret * op.ret * op.ret - 1)
               /\ st_all_dead(st')
          ELSE st' = st ]_vars

\* set_size has returned with the size it had before on a grid that holds
\* live cells, after an earlier call had changed the size
C12_Witness ==
    /\ pc = "idle" /\ op.kind = "set_bounds" /\ ops >= 3
    /\ st.size = op.ret /\ st.size > 0
    /\ \E i \in DOMAIN st.values : st.values[i] > 0 /\ st.neighbors[i] > 0

-----------------------------------------------------------------------------
(* Functions called on their own.  The engines stay as constructed; one
   function is called per behaviour on arguments drawn from the sets below
   and its outcome is recorded in probe. *)

\* largest grid size the geometry functions are called with
MaxProbeSize == 3

ProbeSizes == 1..MaxProbeSize

\* coordinates passed to wrap: from below -2 * size to above 2 * size
ProbeCoords == (0 - 2 * MaxProbeSize - 1)..(2 * MaxProbeSize + 1)

\* neighbour counts passed to the membership tests: every u8 the engines can
\* hold up to 26, the first values above it and the largest u8
ProbeCounts == (0..29) \cup {U8 - 1}

\* lists passed to Value::new
ProbeLists == { <<>>, <<4>>, <<2, 6, 9>>, <<1, 3>>, <<0, 26>>, <<5, 5, 7>> }

\* the engines, the driver and the history as they are after construction
program_vars ==
    <<rule, at, mt, st, pc, op, ops, at_run, mt_run, pre, access, agreed, clean, valid,
      frame, tantan, cm, sims>>

\* LeddooSingleThreaded of a given size
st_of_size(size) == [st_new EXCEPT !.size = size]

\* self.index_to_vec(index)
ProbeIndexToVec ==
    /\ probe = NoProbe
    /\ \E size \in ProbeSizes : \E index \in 0..(size * size * size - 1) :
          probe' = [fn |-> "index_to_vec", arg |-> <<size, index>>,
                    out |-> index_to_vec(st_of_size(size), index)]
    /\ UNCHANGED program_vars

\* self.vec_to_index(vec)
ProbeVecToIndex ==
    /\ probe = NoProbe
    /\ \E size \in ProbeSizes : \E vec \in Lattice(size) :
          probe' = [fn |-> "vec_to_index", arg |-> <<size, vec>>,
                    out |-> vec_to_index(st_of_size(size), vec)]
    /\ UNCHANGED program_vars

\* self.wrap(pos)
ProbeWrap ==
    /\ probe = NoProbe
    /\ \E size \in ProbeSizes : \E pos \in ProbeCoords \X ProbeCoords \X ProbeCoords :
          probe' = [fn |-> "wrap", arg |-> <<size, pos>>,
                    out |-> st_wrap(st_of_size(size), pos)]
    /\ UNCHANGED program_vars

\* rule.birth_rule.in_range(n), rule.survival_rule.in_range(n)
ProbeInRange ==
    /\ probe = NoProbe
    /\ \E set \in {rule.birth_rule, rule.survival_rule} : \E n \in ProbeCounts :
          probe' = [fn |-> "in_range", arg |-> <<set, n>>, out |-> in_range_call(set, n)]
    /\ UNCHANGED program_vars

\* rule.birth_rule.in_range_incorrect(n), rule.survival_rule.in_range_incorrect(n)
ProbeInRangeIncorrect ==
    /\ probe = NoProbe
    /\ \E set \in {rule.birth_rule, rule.survival_rule} : \E n \in ProbeCounts :
          probe' = [fn |-> "in_range_incorrect", arg |-> <<set, n>>,
                    out |-> in_range_incorrect_call(set, n)]
    /\ UNCHANGED program_vars

\* Value::from_range(a..=b).in_range(n)
ProbeFromRange ==
    /\ probe = NoProbe
    /\ \E b \in 0..26 : \E a \in 0..b : \E n \in 0..26 :
          probe' = [fn |-> "from_range", arg |-> <<a, b, n>>,
                    out |-> in_range(Value_from_range(a, b), n)]
    /\ UNCHANGED program_vars

\* Value::new(list).in_range(n)
ProbeNew ==
    /\ probe = NoProbe
    /\ \E list \in ProbeLists : \E n \in 0..26 :
          probe' = [fn |-> "new", arg |-> <<list, n>>,
                    out |-> in_range(Value_new({list[k] : k \in DOMAIN list}), n)]
    /\ UNCHANGED program_vars

\* Self::update_neighbors(&neighbors, index, bounds, &rule, inc): the branch
\* taken and the cell written for one direction.  The plain branch does not
\* wrap: its position pos + dir is kept along with the index made from it.
ProbeAtUpdateNeighbors ==
    /\ probe = NoProbe
    /\ \E radius \in 1..2 : \E index \in 0..(radius * radius * radius * CHUNK_CELL_COUNT - 1) :
          \E k \in DOMAIN get_neighbour_iter(rule.neighbour_method) :
             LET bounds == radius * CHUNK_SIZE
                 atomic == at_source_is_atomic(index, bounds)
             IN probe' = [fn |-> "at_update_neighbors", arg |-> <<radius, index, k>>,
                          out |-> [atomic |-> atomic,
                                   pos |-> IF atomic
                                           THEN wrap(vadd(index_to_pos(index, bounds),
                                                     get_neighbour_iter(rule.neighbour_method)[k]),
                                                     bounds)
                                           ELSE vadd(index_to_pos(index, bounds),
                                                     get_neighbour_iter(rule.neighbour_method)[k]),
                                   index |-> at_neighbor_index(index, bounds, rule, k)]]
    /\ UNCHANGED program_vars

\* Value::from_range(a..=b).in_range_incorrect(n)
ProbeFromRangeIncorrect ==
    /\ probe = NoProbe
    /\ \E a \in 0..26 : \E b \in a..26 : \E n \in ProbeCounts :
          probe' = [fn |-> "from_range_incorrect", arg |-> <<a, b, n>>,
                    out |-> in_range_incorrect_call(Value_from_range(a, b), n).result]
    /\ UNCHANGED program_vars

\* Sim::reset (the default method of the trait) on LeddooAtomic
at_reset(self) ==
    LET bounds == at_bounds(self)
    IN at_set_bounds(at_set_bounds(self, 0), bounds)

\* (variant) set_bounds(0) is not called
mt_reset_same_bounds(self) == mt_set_bounds(self, mt_bounds(self))

\* Sim::reset (the default method of the trait) on the engine built on Chunks
mt_reset(self) ==
    LET bounds == mt_bounds(self)
    IN mt_set_bounds(mt_set_bounds(self, 0), bounds)

\* bounds the engines are given before reset() is called: none, one chunk per
\* axis, two chunks per axis
ResetBounds == {0, 1, CHUNK_SIZE + 1}

\* series of noise offsets, or no call of spawn_noise
ResetDraws == NoiseDraws \cup {<<>>}

\* the engine after set_bounds(n1), spawn_noise (when there is a grid to seed
\* and a series is drawn) and set_bounds(n2)
at_grid_before(n1, draws, n2) ==
    LET a == at_set_bounds(at_new, n1)
        b == IF at_bounds(a) = 0 \/ draws = <<>> THEN a ELSE at_spawn_noise(a, rule, draws)
    IN IF n2 = n1 THEN b ELSE at_set_bounds(b, n2)

mt_grid_before(n1, draws, n2) ==
    LET a == mt_set_bounds(mt_new, n1)
        b == IF mt_bounds(a) = 0 \/ draws = <<>> THEN a ELSE mt_spawn_noise(a, rule, draws)
    IN IF n2 = n1 THEN b ELSE mt_set_bounds(b, n2)

\* sim.reset() on LeddooAtomic, once and twice
ProbeAtReset ==
    /\ probe = NoProbe
    /\ \E n1 \in ResetBounds : \E draws \in ResetDraws : \E n2 \in ResetBounds :
          \E before \in {at_grid_before(n1, draws, n2)} :
             probe' = [fn |-> "at_reset", arg |-> <<n1, draws, n2>>,
                       out |-> [before |-> before,
                                once   |-> at_reset(before),
                                twice  |-> at_reset(at_reset(before))]]
    /\ UNCHANGED program_vars

\* sim.reset() on LeddooMultiThreaded, once and twice
ProbeMtReset ==
    /\ probe = NoProbe
    /\ \E n1 \in ResetBounds : \E draws \in ResetDraws : \E n2 \in ResetBounds :
          \E before \in {mt_grid_before(n1, draws, n2)} :
             probe' = [fn |-> "mt_reset", arg |-> <<n1, draws, n2>>,
                       out |-> [before |-> before,
                                once   |-> mt_reset(before),
                                twice  |-> mt_reset(mt_reset(before))]]
    /\ UNCHANGED program_vars

\* the rules one tick of the sparse simulations is compared under: the rule
\* of the run, and that rule with 0 added to its birth set
SparseRules ==
    { [rule EXCEPT !.bounding_size = TantanBounds],
      [rule EXCEPT !.bounding_size = TantanBounds,
                   !.birth_rule = [n \in DOMAIN @ |-> n = 0 \/ @[n]]] }

\* the series of TantanDraws whose positions all lie in the bounding box
InBoundsDraws ==
    {d \in TantanDraws : \A k \in DOMAIN d :
        is_in_bounds(vadd(center(TantanBounds), d[k]), TantanBounds)}

\* in-bounds states maps: no cell, the cells of a noise injection, and those
\* cells after one and after two ticks of CellsSinglethreaded
sparse_states(rule_) ==
    LET seeded(d) == tantan_insert_noise(EmptyMap, rule_,
                         make_some_noise_default(center(TantanBounds), d))
        ticked(s) == tst_tick([tst_new EXCEPT !.states = s], rule_).states
    IN {EmptyMap} \cup {seeded(d) : d \in InBoundsDraws}
         \cup {ticked(seeded(d)) : d \in InBoundsDraws}
         \cup {ticked(ticked(seeded(d))) : d \in InBoundsDraws}

\* CellsSinglethreaded::tick and tantan CellsMultithreaded::tick on the same
\* rule and the same states map; the multi-threaded simulation is as
\* constructed but for its states
ProbeSparseTick ==
    /\ probe = NoProbe
    /\ \E rule_ \in SparseRules : \E states \in sparse_states(rule_) :
          probe' = [fn |-> "sparse_tick", arg |-> <<rule_, states>>,
                    out |-> [st |-> tst_tick([tst_new EXCEPT !.states = states], rule_).states,
                             mt |-> tmt_tick([tmt_new EXCEPT !.states = states], rule_).states]]
    /\ UNCHANGED program_vars

ProbeNext ==
    \/ ProbeAtUpdateNeighbors
    \/ ProbeFromRangeIncorrect
    \/ ProbeIndexToVec
    \/ ProbeVecToIndex
    \/ ProbeWrap
    \/ ProbeInRange
    \/ ProbeInRangeIncorrect
    \/ ProbeFromRange
    \/ ProbeNew
    \/ ProbeAtReset
    \/ ProbeMtReset
    \/ ProbeSparseTick

Probes == Init /\ [][ProbeNext]_vars

\* C13: index round trip.  For every size >= 1, index_to_vec(vec_to_index(v))
\* is v for every v of the lattice, vec_to_index(v) is x + y*size + z*size^2,
\* and vec_to_index(index_to_vec(i)) is i for every i below size^3.
C13_IndexRoundTrip ==
    /\ probe.fn = "vec_to_index" =>
          LET size == probe.arg[1]
              v == probe.arg[2]
          IN /\ probe.out = v[1] + v[2] * size + v[3] * size * size
             /\ probe.out \in 0..(size * size * size - 1)
             /\ index_to_vec(st_of_size(size), probe.out) = v
    /\ probe.fn = "index_to_vec" =>
          LET size == probe.arg[1]
          IN /\ probe.out \in Lattice(size)
             /\ vec_to_index(st_of_size(size), probe.out) = probe.arg[2]

\* index_to_vec has been called on the largest grid for an index with no
\* coordinate 0 and with y different from x and from z
C13_Witness ==
    /\ probe.fn = "index_to_vec" /\ probe.arg[1] = MaxProbeSize
    /\ probe.out[1] > 0 /\ probe.out[2] > probe.out[1] /\ probe.out[3] > 0
    /\ probe.out[3] # probe.out[2]

\* C14: wrap correctness.  For every size >= 1 and every integer position,
\* also with negative coordinates and coordinates at or above the size, wrap
\* returns on each axis a coordinate c with 0 <= c < size that is congruent
\* to the coordinate passed modulo the size.
C14_WrapCorrect ==
    probe.fn = "wrap" =>
        LET size == probe.arg[1]
            pos == probe.arg[2]
        IN \A axis \in 1..3 :
              /\ probe.out[axis] \in 0..(size - 1)
              /\ \E q \in (0 - 2 * MaxProbeSize - 2)..(2 * MaxProbeSize + 2) :
                    pos[axis] = probe.out[axis] + q * size

\* wrap has been called on a grid larger than one cell with a negative
\* coordinate that is no multiple of the size, a coordinate at the size and a
\* coordinate more than one size above the grid
C14_Witness ==
    /\ probe.fn = "wrap" /\ probe.arg[1] > 1
    /\ probe.arg[2][1] < 0 /\ probe.out[1] > 0
    /\ probe.arg[2][2] = probe.arg[1] /\ probe.out[2] = 0
    /\ probe.arg[2][3] > 2 * probe.arg[1]

\* C15: rule membership is total.  Testing any u8 count against a birth or
\* survival set never fails, and a count above 26 is reported as not in range.
C15_MembershipTotal ==
    probe.fn \in {"in_range", "in_range_incorrect"} =>
        /\ ~probe.out.panics
        /\ probe.arg[2] > 26 => ~probe.out.result

\* C16: inclusive range membership.  For a set built by from_range(a..=b) with
\* 0 <= a <= b <= 26, in_range(n) is true exactly for a <= n <= b; for a set
\* built by Value::new(list) it is true exactly for the n of 0..26 that occur
\* in the list.
C16_InclusiveRange ==
    /\ probe.fn = "from_range" =>
          (probe.out <=> (probe.arg[1] <= probe.arg[3] /\ probe.arg[3] <= probe.arg[2]))
    /\ probe.fn = "new" =>
          (probe.out <=> \E k \in DOMAIN probe.arg[1] : probe.arg[1][k] = probe.arg[2])

\* in_range has been called with the upper end of a range of more than one
\* count and has returned true
C16_Witness ==
    /\ probe.fn = "from_range"
    /\ probe.arg[1] < probe.arg[2] /\ probe.arg[3] = probe.arg[2]
    /\ probe.out

-----------------------------------------------------------------------------
(* C17: render extraction is a read-only projection *)

RenderStep == pc = "render" /\ pc' = "idle"

\* the number of records of a frame that lie at a position
RecordsAt(records, position) ==
    Cardinality({k \in DOMAIN records : records[k].position = position})

\* the records of a frame are exactly the cells of a grid that are not dead:
\* one record, with the cell's value and count, at the position of every cell
\* with value # 0, and no record at the position of a dead cell
at_projected(records) ==
    \A pos \in Lattice(at_bounds(at)) :
        LET here == vsub(pos, center(at_bounds(at))) IN
        IF at_cell_at(pos)[1] # 0
        THEN /\ RecordsAt(records, here) = 1
             /\ \A k \in DOMAIN records : records[k].position = here =>
                    <<records[k].value, records[k].neighbors>> = at_cell_at(pos)
        ELSE RecordsAt(records, here) = 0

mt_projected(records) ==
    \A pos \in Lattice(mt_bounds(mt)) :
        LET here == vsub(pos, center(mt_bounds(mt))) IN
        IF mt_cell_at(pos)[1] # 0
        THEN /\ RecordsAt(records, here) = 1
             /\ \A k \in DOMAIN records : records[k].position = here =>
                    <<records[k].value, records[k].neighbors>> = mt_cell_at(pos)
        ELSE RecordsAt(records, here) = 0

st_projected(records) ==
    \A pos \in Lattice(st.size) :
        LET here == vsub(pos, center(st.size)) IN
        IF st_cell_at(pos)[1] # 0
        THEN /\ RecordsAt(records, here) = 1
             /\ \A k \in DOMAIN records : records[k].position = here =>
                    <<records[k].value, records[k].neighbors>> = st_cell_at(pos)
        ELSE RecordsAt(records, here) = 0

\* C17: a render step (render() of every engine, then cell_count()) changes
\* no cell value and no neighbour count of any engine, and the records it
\* yields are one per cell with value # 0 and none for a dead cell, so that
\* their number is what cell_count() returns.
C17_RenderReadOnly ==
    [][ RenderStep =>
          /\ at' = at /\ mt' = mt /\ st' = st
          /\ at_projected(frame'.at)
          /\ mt_projected(frame'.mt)
          /\ st_projected(frame'.st)
          /\ Len(frame'.at) = frame'.cell_count.at
          /\ Len(frame'.mt) = frame'.cell_count.mt
          /\ Len(frame'.st) = frame'.cell_count.st ]_vars

\* a frame was rendered of a grid that holds a cell at full value, a decaying
\* cell and a dead cell: the first two have a record and the last has none
C17_Witness ==
    /\ pc = "idle" /\ frame.rendered
    /\ \E i \in DOMAIN st.values : st.values[i] = rule.states
    /\ \E i \in DOMAIN st.values : st.values[i] > 0 /\ st.values[i] < rule.states
    /\ \E i \in DOMAIN st.values : st.values[i] = 0
    /\ Len(frame.st) > 1 /\ Len(frame.at) > 1 /\ Len(frame.mt) > 1

-----------------------------------------------------------------------------
(* C18: the diff lists of Phase A *)

\* the value of the cell went from 0 to states / from states to states - 1
Born(old, new) == old = 0 /\ new = rule.states

Dying(old, new) == old = rule.states /\ new = rule.states - 1

\* the lists spawns and deaths name the cells of a grid that were born and
\* that started to die, each once, and no other cell
ListsExact(spawns, deaths, cells, old, new) ==
    /\ \A h \in DOMAIN spawns : spawns[h] \in cells
    /\ \A h \in DOMAIN deaths : deaths[h] \in cells
    /\ \A i \in cells :
          /\ Occurrences(spawns, i) = IF Born(old[i], new[i]) THEN 1 ELSE 0
          /\ Occurrences(deaths, i) = IF Dying(old[i], new[i]) THEN 1 ELSE 0
          /\ ~(Occurrences(spawns, i) > 0 /\ Occurrences(deaths, i) > 0)
          /\ (0 < old[i] /\ old[i] < rule.states) =>
                 Occurrences(spawns, i) = 0 /\ Occurrences(deaths, i) = 0

\* the lists of the value task of chunk c of the multi-threaded engine, with
\* the offsets of the chunk-local lists turned to indices
MtAllSpawns ==
    Extend([c \in ChunksOf(mt.chunk_count) |->
               [h \in DOMAIN mt_run.chunk_spawns[c] |->
                   c * CHUNK_CELL_COUNT + mt_run.chunk_spawns[c][h]]
               \o mt_run.out_spawns[c]], 0)

MtAllDeaths ==
    Extend([c \in ChunksOf(mt.chunk_count) |->
               [h \in DOMAIN mt_run.chunk_deaths[c] |->
                   c * CHUNK_CELL_COUNT + mt_run.chunk_deaths[c][h]]
               \o mt_run.out_deaths[c]], 0)

\* the values of the multi-threaded engine by index chunk * CHUNK_CELL_COUNT + offset
MtFlat(values) ==
    [i \in 0..(mt.chunk_count * CHUNK_CELL_COUNT - 1) |->
        values[index_to_chunk_index(i)][index_to_chunk_offset(i)]]

\* C18: diff lists are exact.  When every value task of an update() of a
\* chunk-parallel engine has completed, spawns holds exactly the indices whose
\* value went from 0 to states in this update and deaths exactly those whose
\* value went from states to states - 1, each once; no index is in both, and
\* a cell that stepped down from a value below states is in neither.
C18_DiffListsExact ==
    /\ AtPhaseADone =>
           ListsExact(AtAllSpawns, AtAllDeaths, DOMAIN at.values, pre.values, at.values)
    /\ (pc = "mt_values" /\ MtPhaseAComplete) =>
           ListsExact(MtAllSpawns, MtAllDeaths,
                      0..(mt.chunk_count * CHUNK_CELL_COUNT - 1),
                      MtFlat(pre.values), MtFlat(mt.values))

\* Phase A of the multi-threaded engine has completed in an update() in which
\* a cell was born and another cell left full value; cells that kept their
\* value are in neither list
C18_Witness ==
    /\ pc = "mt_values" /\ MtPhaseAComplete
    /\ Len(MtAllSpawns) > 0 /\ Len(MtAllDeaths) > 0
    /\ \E c \in ChunksOf(mt.chunk_count) : \E o \in 0..(CHUNK_CELL_COUNT - 1) :
          mt.values[c][o] = pre.values[c][o]

-----------------------------------------------------------------------------
(* C19: what each phase of LeddooAtomic::update writes *)

\* a step in which the value task of chunk c runs
AtValueTaskStep(c) ==
    /\ pc \in {"at_values", "at_neighbors"}
    /\ c \notin at_run.value_done
    /\ c \in at_run'.value_done

\* C19: phase frame conditions.  A value task (Phase A, update_values) of the
\* atomic engine writes no neighbour count and writes the value of no cell
\* outside its own chunk, and the counts it reads are those of the start of
\* the update(); a step of a neighbour task (Phase B, update_neighbors) writes
\* no value.
C19_PhaseFrames ==
    [][ /\ \A c \in ChunksOf(at.chunk_count) :
               AtValueTaskStep(c) =>
                   /\ at'.neighbors = at.neighbors
                   /\ at.neighbors = pre.neighbors
                   /\ \A i \in DOMAIN at.values :
                          at'.values[i] # at.values[i] => ChunkOfCell(i) = c
        /\ (pc = "at_neighbors" /\ AtPhaseBStep) => at'.values = at.values ]_vars

\* Phase B is under way on a grid of two chunks per axis: value tasks of two
\* chunks have changed values, and a neighbour task has changed a count
C19_Witness ==
    /\ pc = "at_neighbors"
    /\ at.chunk_radius = 2
    /\ \E c1, c2 \in ChunksOf(at.chunk_count) :
          /\ c1 # c2
          /\ \E i \in at_chunk_cells(c1) : at.values[i] # pre.values[i]
          /\ \E j \in at_chunk_cells(c2) : at.values[j] # pre.values[j]
    /\ at.neighbors # pre.neighbors

-----------------------------------------------------------------------------
(* C20: the cells of the value tasks *)

\* C20: Phase A partition.  While the value tasks of an update() of the atomic
\* engine run, the sets of flat indices visited by the tasks of different
\* chunks are pairwise disjoint, every task visits CHUNK_CELL_COUNT distinct
\* cells, and the union of the sets is exactly 0 .. bounds^3 - 1.
C20_PhaseAPartition ==
    pc = "at_values" =>
        /\ \A c1, c2 \in ChunksOf(at.chunk_count) :
               c1 # c2 => at_chunk_cells(c1) \cap at_chunk_cells(c2) = {}
        /\ \A c \in ChunksOf(at.chunk_count) :
               Cardinality(at_chunk_cells(c)) = CHUNK_CELL_COUNT
        /\ UNION {at_chunk_cells(c) : c \in ChunksOf(at.chunk_count)} =
               0..(at_bounds(at) * at_bounds(at) * at_bounds(at) - 1)

\* the value tasks of two chunks of a grid of two chunks per axis are both
\* still to run, each with a cell to change
C20_Witness ==
    /\ pc = "at_values"
    /\ at.chunk_radius = 2
    /\ \E c1, c2 \in ChunksOf(at.chunk_count) :
          /\ c1 # c2
          /\ c1 \notin at_run.value_done
          /\ c2 \notin at_run.value_done

-----------------------------------------------------------------------------
(* C21: chunk-local and serial lists of LeddooMultiThreaded::update *)

\* the local position lies in the chunk
InChunk(pos) == \A a \in 1..3 : pos[a] \in 0..(CHUNK_SIZE - 1)

\* the local position is on no face of the chunk
OffFace(pos) == \A a \in 1..3 : pos[a] \in 1..(CHUNK_SIZE - 2)

\* the cell at offset is on no face and every cell update_neighbors_chunk
\* patches for it lies in the chunk
PatchedInChunk(offset) ==
    /\ OffFace(index_to_pos(offset, CHUNK_SIZE))
    /\ \A k \in DOMAIN get_neighbour_iter(rule.neighbour_method) :
           InChunk(vadd(index_to_pos(offset, CHUNK_SIZE),
                        get_neighbour_iter(rule.neighbour_method)[k]))

\* a step in which the value task of chunk c of the multi-threaded engine runs
MtValueTaskStep(c) ==
    /\ pc \in {"mt_values", "mt_neighbours"}
    /\ c \notin mt_run.value_done
    /\ c \in mt_run'.value_done

\* C21: serial-boundary classification.  The value task of a chunk puts a
\* changed cell on its chunk-local list only if no local coordinate of the
\* cell is 0 or CHUNK_SIZE - 1, and then every neighbour patched for it, in
\* every direction of the topology, has its local coordinates in
\* 0..CHUNK_SIZE - 1; the changed cells on a face go to the lists of the
\* serial pass; a parallel neighbour task patches for cells off the faces
\* only, and the serial pass runs when every parallel task has run to its end.
C21_SerialBoundary ==
    [][ /\ \A c \in ChunksOf(mt.chunk_count) :
               MtValueTaskStep(c) =>
                   /\ \A o \in 0..(CHUNK_CELL_COUNT - 1) :
                          (Occurrences(mt_run'.chunk_spawns[c], o) > 0
                             \/ Occurrences(mt_run'.chunk_deaths[c], o) > 0)
                          => PatchedInChunk(o)
                   /\ \A o \in 0..(CHUNK_CELL_COUNT - 1) :
                          (mt'.values[c][o] # mt.values[c][o]
                             /\ mt'.values[c][o] \in {rule.states, rule.states - 1}
                             /\ mt.values[c][o] \in {0, rule.states}
                             /\ ~OffFace(index_to_pos(o, CHUNK_SIZE)))
                          => /\ Occurrences(mt_run'.chunk_spawns[c], o) = 0
                             /\ Occurrences(mt_run'.chunk_deaths[c], o) = 0
                             /\ Occurrences(mt_run'.out_spawns[c] \o mt_run'.out_deaths[c],
                                            c * CHUNK_CELL_COUNT + o) = 1
        /\ \A c \in ChunksOf(mt.chunk_count) :
               (pc = "mt_neighbours" /\ pc' = pc /\ mt_run'.item[c] # mt_run.item[c]) =>
                   /\ PatchedInChunk(mt_task_items(c)[mt_run.item[c]])
                   /\ \A d \in ChunksOf(mt.chunk_count) :
                          d # c => mt'.neighbours[d] = mt.neighbours[d]
        /\ (pc = "mt_neighbours" /\ pc' = "st") =>
               \A c \in ChunksOf(mt.chunk_count) : mt_task_finished(c) ]_vars

\* the parallel neighbour tasks have run to their end: one patched for a cell
\* next to a face of its chunk, and cells on faces wait for the serial pass
C21_Witness ==
    /\ pc = "mt_neighbours"
    /\ mt_neighbours_joined
    /\ Len(mt_run.spawns) + Len(mt_run.deaths) > 0
    /\ \E c \in ChunksOf(mt.chunk_count) : \E h \in DOMAIN mt_task_items(c) :
          \E a \in 1..3 :
              index_to_pos(mt_task_items(c)[h], CHUNK_SIZE)[a] \in {1, CHUNK_SIZE - 2}

-----------------------------------------------------------------------------
(* C22: the u8 arithmetic of update() and spawn_noise() *)

\* the number of directions of the rule's topology
Directions == Len(get_neighbour_iter(rule.neighbour_method))

\* every count of the cells accessed that the step has changed differs by one
\* from the old count and is within 0..Directions: no `+= 1` above the number
\* of directions (or 255), no `-= 1` on 0
OneStepInRange(old, new, accessed) ==
    new # old =>
        \A a \in accessed :
            new[a[1]] # old[a[1]] =>
                /\ new[a[1]] \in 0..Directions
                /\ new[a[1]] - old[a[1]] \in {1, 0 - 1}

\* the counts before a sequential loop of `+= 1` for incs followed by `-= 1` for
\* decs never leave 0..Directions during the loop
LoopInRange(old, incs, decs) ==
    \A j \in DOMAIN old :
        /\ old[j] + Occurrences(incs, j) <= Directions
        /\ old[j] + Occurrences(incs, j) - Occurrences(decs, j) >= 0

\* the lists spawns and deaths of LeddooSingleThreaded::update
StSpawns == Ascending({i \in DOMAIN st.values : is_spawn(st.values[i], st.neighbors[i], rule)})

StDeaths == Ascending({i \in DOMAIN st.values : is_death(st.values[i], st.neighbors[i], rule)})

\* no value that is 0 is decremented
NoDecrementOfZero(old, new) == \A i \in DOMAIN old : old[i] = 0 => new[i] \in {0, rule.states}

\* C22: no arithmetic failure.  When the counts of an engine are valid as an
\* operation begins (for update(): its grid was all dead after its last
\* set_bounds, so that by C1 its counts are valid at every call), then during
\* the operation: every step of a Phase B task of the atomic engine, in every
\* interleaving, moves a count by one and leaves it within 0..Directions; the
\* loops of the single-threaded update keep every count within
\* 0..Directions; spawn_noise leaves every count within 0..Directions; no
\* value that is 0 is decremented; and no membership lookup panics (every
\* count looked up is at most 26).
C22_NoArithmeticFailure ==
    [][ /\ (clean.at /\ pc = "at_neighbors" /\ pc' = pc) =>
               OneStepInRange(at.neighbors, at'.neighbors, access')
        /\ (clean.at /\ pc = "at_values" /\ pc' = pc) =>
               NoDecrementOfZero(at.values, at'.values)
        /\ (clean.at /\ pc \in {"at_values", "at_neighbors"}) => pc' # "panicked"
        /\ (valid'.at /\ AtNoiseStep) =>
               /\ \A j \in DOMAIN at'.neighbors : at'.neighbors[j] \in 0..Directions
               /\ \A j \in DOMAIN at.neighbors : at'.neighbors[j] >= at.neighbors[j]
        /\ (clean.st /\ pc = "st" /\ op.kind = "update") =>
               /\ pc' # "panicked"
               /\ LoopInRange(st.neighbors, st_targets(st, rule, StSpawns),
                              st_targets(st, rule, StDeaths))
               /\ NoDecrementOfZero(st.values, st'.values)
               /\ \A j \in DOMAIN st'.neighbors : st'.neighbors[j] \in 0..Directions
        /\ (valid.st /\ StNoiseStep) =>
               /\ \A j \in DOMAIN st'.neighbors : st'.neighbors[j] \in 0..Directions
               /\ \A j \in DOMAIN st.neighbors : st'.neighbors[j] >= st.neighbors[j] ]_vars

\* Phase B of the atomic engine has run to its end on a grid that was all
\* dead after set_bounds: a count was raised and another was lowered to 0
C22_Witness ==
    /\ clean.at
    /\ pc = "at_neighbors" /\ AtPhaseBComplete
    /\ \E j \in DOMAIN at.neighbors : at.neighbors[j] > pre.neighbors[j]
    /\ \E j \in DOMAIN at.neighbors : at.neighbors[j] = 0 /\ pre.neighbors[j] > 0

-----------------------------------------------------------------------------
(* C23: the plain branch of LeddooAtomic::update_neighbors *)

\* the chunk, per axis, of a lattice position
ChunkVec(pos) == <<pos[1] \div CHUNK_SIZE, pos[2] \div CHUNK_SIZE, pos[3] \div CHUNK_SIZE>>

\* C23: interior patches stay inside the chunk.  update_neighbors takes the
\* plain (non-atomic) branch exactly for the source cells with every local
\* coordinate in 2..CHUNK_SIZE - 3; then, for every direction, pos + dir lies
\* in the grid without wrapping, in the chunk of the source cell, and is the
\* cell written.  So a call that writes a count of another chunk is for a
\* source cell at or next to a chunk face, and takes the atomic branch.
C23_InteriorPatches ==
    probe.fn = "at_update_neighbors" =>
        LET bounds == probe.arg[1] * CHUNK_SIZE
            src    == <<probe.arg[2] % bounds, (probe.arg[2] \div bounds) % bounds,
                        probe.arg[2] \div (bounds * bounds)>>
            inner  == \A a \in 1..3 : (src[a] % CHUNK_SIZE) \in 2..(CHUNK_SIZE - 3)
            dst    == <<probe.out.index % bounds, (probe.out.index \div bounds) % bounds,
                        probe.out.index \div (bounds * bounds)>>
        IN /\ probe.out.atomic <=> ~inner
           /\ ~probe.out.atomic =>
                  /\ \A a \in 1..3 : probe.out.pos[a] \in 0..(bounds - 1)
                  /\ ChunkVec(probe.out.pos) = ChunkVec(src)
                  /\ dst = probe.out.pos
           /\ probe.out.index \in 0..(bounds * bounds * bounds - 1)
           /\ ChunkVec(dst) # ChunkVec(src) =>
                  /\ probe.out.atomic
                  /\ \E a \in 1..3 :
                         (src[a] % CHUNK_SIZE) \in {0, 1, CHUNK_SIZE - 2, CHUNK_SIZE - 1}

\* the plain branch was taken on a grid of two chunks per axis, for a source
\* cell in a chunk that is not the first, in a direction that moves on every
\* axis
C23_Witness ==
    /\ probe.fn = "at_update_neighbors"
    /\ ~probe.out.atomic
    /\ probe.arg[1] = 2
    /\ probe.arg[2] >= CHUNK_CELL_COUNT
    /\ \A a \in 1..3 : get_neighbour_iter(rule.neighbour_method)[probe.arg[3]][a] # 0

-----------------------------------------------------------------------------
(* C24: Value::in_range_incorrect on a range *)

-----------------------------------------------------------------------------
(* The sparse (tantan) simulations: one action per handler.  Each handler is
   called with the rule of the run at bounding_size TantanBounds.  The field
   noise records the last injection: the positions drawn, states before the
   inserts and states after them (before the tick of the same handler). *)

\* the variables of the dense engines and of their driver
leddoo_vars ==
    <<rule, at, mt, st, pc, op, ops, at_run, mt_run, pre, access, agreed, clean, valid,
      frame>>

tantan_rule == [rule EXCEPT !.bounding_size = TantanBounds]

\* the record of an injection into states
noise_record(sim, states, positions) ==
    [sim |-> sim, positions |-> {positions[k] : k \in DOMAIN positions},
     before |-> states, noised |-> tantan_insert_noise(states, tantan_rule, positions)]

\* <CellsSinglethreaded as Sim>::update: the noise if P was just pressed, then
\* self.tick(rule)
TstUpdate(just_pressed, draws) ==
    /\ tantan.ops < MaxTantanOps
    /\ LET positions == make_some_noise_default(center(tantan_rule.bounding_size), draws)
           n == IF just_pressed
                THEN noise_record("st", tantan.st.states, positions)
                ELSE [NoNoise EXCEPT !.noised = tantan.st.states]
           noised == [tantan.st EXCEPT !.states = n.noised]
           pushed == tst_push_changes(tst_calculate_neighbours(noised, tantan_rule),
                                      tantan_rule)
       IN tantan' = [tantan EXCEPT
                        !.st = tst_tick(noised, tantan_rule),
                        !.ops = @ + 1,
                        !.noise = IF just_pressed THEN n ELSE NoNoise,
                        !.born = {s[1] : s \in pushed.spawn}]
    /\ UNCHANGED <<leddoo_vars, probe, cm, sims>>

\* tantan multi_threaded.rs, system spawn_noise with P pressed: the inserts,
\* then cells.tick
TmtSpawnNoise(draws) ==
    /\ tantan.ops < MaxTantanOps
    /\ LET positions == make_some_noise_default(center(tantan_rule.bounding_size), draws)
           n == noise_record("mt", tantan.mt.states, positions)
       IN tantan' = [tantan EXCEPT
                        !.mt = tmt_tick([@ EXCEPT !.states = n.noised], tantan_rule),
                        !.ops = @ + 1,
                        !.noise = n]
    /\ UNCHANGED <<leddoo_vars, probe, cm, sims>>

\* tantan multi_threaded.rs, system tick_cell with E pressed
TmtTickCell ==
    /\ tantan.ops < MaxTantanOps
    /\ tantan' = [tantan EXCEPT !.mt = tmt_tick(@, tantan_rule),
                                !.ops = @ + 1,
                                !.noise = NoNoise]
    /\ UNCHANGED <<leddoo_vars, probe, cm, sims>>

TantanNext ==
    \/ \E just_pressed \in BOOLEAN : \E draws \in TantanDraws : TstUpdate(just_pressed, draws)
    \/ \E draws \in TantanDraws : TmtSpawnNoise(draws)
    \/ TmtTickCell

Tantan == Init /\ [][TantanNext]_vars

\* C25: noise in the sparse simulation leaves the cells already alive alone.
\* A cell present in states (value > 0) at a position the noise draws holds
\* the same value after the inserts as before them.
C25_NoiseKeepsAlive ==
    \A p \in tantan.noise.positions \cap DOMAIN tantan.noise.before :
        tantan.noise.noised[p].value = tantan.noise.before[p].value

-----------------------------------------------------------------------------
(* cells_multithreaded.rs: CellsMultithreaded.  tick() advances one
   ProcessStep per call; the neighbour and change passes are left to tasks
   spawned on the task pool and polled by later ticks.  A task holds the
   locks of its position cache and of its result cache from its first
   statement to its last, so its body is one step.  The Vec of jobs is
   modelled by the set of the cache indices of the jobs it holds, the task
   pool by the set of the tasks spawned and not yet run to completion.
   History fields: started and applied count the cycles started and the
   calls of apply_changes, applied_changes is the map apply_changes last went
   through, unwrap_failed records a failed unwrap, last names the last
   handler and the step its tick() left. *)

\* task_pool.thread_num()
JobCount == 2

\* rule.bounding_size of the rule CellsMultithreaded is run with
CmBounds == 2

\* number of cycles started (the first by new(), the others by ready())
MaxCycles == 3

\* the element of a singleton; Only({e(x) : x \in {v}}) is e with x bound to
\* the value of v, computed once
Only(S) == CHOOSE x \in S : TRUE

\* (variant) AwaitNeighbours is not left
advance_to_next_step_stuck(step) ==
    CASE step = "Ready" -> "CalculateNeighbours"
      [] step = "CalculateNeighbours" -> "AwaitNeighbours"
      [] step = "AwaitNeighbours" -> "AwaitNeighbours"
      [] step = "CalculateChanges" -> "AwaitChanges"
      [] step = "AwaitChanges" -> "Ready"

\* ProcessStep::advance_to_next_step
advance_to_next_step(step) ==
    CASE step = "Ready" -> "CalculateNeighbours"
      [] step = "CalculateNeighbours" -> "AwaitNeighbours"
      [] step = "AwaitNeighbours" -> "CalculateChanges"
      [] step = "CalculateChanges" -> "AwaitChanges"
      [] step = "AwaitChanges" -> "Ready"

\* utils::keep_in_bounds(bounds, pos), on one axis
keep_in_bounds_axis(bounds, x) ==
    IF x <= -bounds THEN bounds - 1 ELSE IF x >= bounds THEN -bounds + 1 ELSE x

\* utils::keep_in_bounds(bounds, pos)
keep_in_bounds(bounds, pos) ==
    <<keep_in_bounds_axis(bounds, pos[1]), keep_in_bounds_axis(bounds, pos[2]),
      keep_in_bounds_axis(bounds, pos[3])>>

\* utils::spawn_noise / utils::spawn_noise_small: states.insert(pos,
\* CellState::new(rule.states, 0, dist)) for each position drawn
spawn_noise(states, rule_, positions) ==
    LET drawn == {positions[k] : k \in DOMAIN positions}
    IN [p \in DOMAIN states \cup drawn |->
           IF p \in drawn THEN CellState_new(rule_.states, 0) ELSE states[p]]

\* the positions utils::spawn_noise_small draws (cube of half-width 1)
SmallDraws ==
    { << <<0, 0, 0>>, <<1, 0, 0>> >>,
      << <<0, 0, 0>>, <<1, 0, 0>>, <<0, 1, 0>>, <<0, 0, 0>> >> }

\* the positions utils::spawn_noise draws, on the scale of CmBounds
CmDraws ==
    { << <<0, 0, 0>> >>,
      << <<-1, 0, 0>>, <<0, 0, 0>>, <<0, -1, 0>> >> }

\* the place of a position in the iteration of a HashMap (one fixed order)
pos_key(p) == (p[1] + 16) + (p[2] + 16) * 32 + (p[3] + 16) * 1024

\* ((len as f32 / job_count as f32).ceil() as usize).max(1)
chunk_size_of(len, job_count) ==
    LET c == (len + job_count - 1) \div job_count IN IF c < 1 THEN 1 ELSE c

\* keys.iter().enumerate(): the i-th key goes to the cache i / chunk_size
slices(keys, job_count) ==
    LET i_of(p) == Cardinality({q \in keys : pos_key(q) < pos_key(p)})
    IN Only({ [j \in 0..(job_count - 1) |-> {p \in keys : i_of(p) \div chunk_size = j}] :
                chunk_size \in {chunk_size_of(Cardinality(keys), job_count)} })

\* a Vec of caches grown to job_count; an index not yet pushed reads as `empty`
cache_get(caches, j, empty) == IF j \in DOMAIN caches THEN caches[j] ELSE empty

\* CellsMultithreaded::new: the fields before utils::spawn_noise_small
cm_default ==
    [step |-> "CalculateNeighbours",
     states |-> EmptyMap, neighbours |-> EmptyMap, changes |-> EmptyMap,
     change_mask |-> EmptyMap,
     neighbour_jobs |-> {}, change_jobs |-> {},
     change_results_cache |-> EmptyMap, neighbour_results_cache |-> EmptyMap,
     position_thread_cache |-> EmptyMap,
     instance_material_data |-> [some |-> FALSE, data |-> EmptyMap],
     tasks |-> {},
     started |-> 1, applied |-> 0, applied_changes |-> EmptyMap,
     unwrap_failed |-> FALSE,
     last |-> [handler |-> "new", ticked |-> "CalculateNeighbours"]]

\* CellsMultithreaded::new(rule)
cm_new(rule_, positions) ==
    [cm_default EXCEPT !.states = spawn_noise(@, rule_, positions)]

\* (variant) is_busy never reports a cycle in progress
cm_is_busy_never(self) == FALSE

\* CellsMultithreaded::is_busy
cm_is_busy(self) == self.step # "Ready"

\* (variant) ready() advances from whatever step
cm_ready_unguarded(self) ==
    [self EXCEPT !.step = advance_to_next_step(@), !.started = @ + 1]

\* CellsMultithreaded::ready
cm_ready(self) ==
    IF self.step = "Ready"
    THEN [self EXCEPT !.step = advance_to_next_step(@), !.started = @ + 1]
    ELSE self

\* CellsMultithreaded::calculate_neighbours: the keys of states are dealt to
\* the position caches and one task per cache is spawned
cm_calculate_neighbours(self, rule_) ==
    LET jobs == 0..(JobCount - 1)
    IN [self EXCEPT
          !.position_thread_cache =
              Only({ [j \in jobs |-> cache_get(@, j, {}) \cup s[j]] :
                       s \in {slices(DOMAIN self.states, JobCount)} }),
          !.neighbour_results_cache = [j \in jobs |-> cache_get(@, j, EmptyMap)],
          !.neighbour_jobs = @ \cup jobs,
          !.tasks = @ \cup {<<"neighbours", j>> : j \in jobs}]

\* the positions a neighbour task pushes, with the number of times each is
\* pushed: keep_in_bounds(cell_pos + dir) for each cell of its cache that is
\* at full value
neighbour_task_pushes(self, rule_, j) ==
    LET dirs == get_neighbour_iter(rule_.neighbour_method)
        full == {p \in self.position_thread_cache[j] \cap DOMAIN self.states :
                    self.states[p].value = rule_.states}
        target(p, k) == keep_in_bounds(rule_.bounding_size, vadd(p, dirs[k]))
    IN Only({ [q \in {pushes[i] : i \in DOMAIN pushes} |->
                  Cardinality({i \in DOMAIN pushes : pushes[i] = q})] :
              pushes \in {[pk \in full \X DOMAIN dirs |-> target(pk[1], pk[2])]} })

\* the body of the task spawned by calculate_neighbours for cache j
cm_neighbour_task(self, rule_, j) ==
    LET old == self.neighbour_results_cache[j]
    IN [self EXCEPT
          !.neighbour_results_cache[j] =
              Only({ [q \in DOMAIN old \cup DOMAIN pushed |->
                         neighbours_get(old, q) + neighbours_get(pushed, q)] :
                     pushed \in {neighbour_task_pushes(self, rule_, j)} }),
          !.tasks = @ \ {<<"neighbours", j>>}]

\* the number of times a position was pushed, over the caches from j on
RECURSIVE pushes_from(_, _, _)
pushes_from(caches, q, j) ==
    IF j \notin DOMAIN caches THEN 0
    ELSE neighbours_get(caches[j], q) + pushes_from(caches, q, j + 1)

\* tick() in AwaitNeighbours, all jobs done: the results are drained into
\* neighbours (one increment per push), the mask is set at every position
\* counted and at every key of states, the position caches are cleared
cm_merge_neighbours(self) ==
    LET caches == self.neighbour_results_cache
        counted == UNION {DOMAIN caches[j] : j \in DOMAIN caches}
        masked == DOMAIN self.change_mask \cup counted \cup DOMAIN self.states
    IN [self EXCEPT
          !.neighbours = [q \in DOMAIN @ \cup counted |->
                            (neighbours_get(@, q) + pushes_from(caches, q, 0)) % U8],
          !.neighbour_results_cache = [j \in DOMAIN @ |-> EmptyMap],
          !.change_mask = [q \in masked |->
                            IF q \in counted \cup DOMAIN self.states THEN TRUE ELSE @[q]],
          !.position_thread_cache = [j \in DOMAIN @ |-> {}]]

\* CellsMultithreaded::calculate_changes: the keys of change_mask are dealt to
\* the position caches and one task per cache is spawned
cm_calculate_changes(self, rule_) ==
    LET jobs == 0..(JobCount - 1)
    IN [self EXCEPT
          !.position_thread_cache =
              Only({ [j \in jobs |-> cache_get(@, j, {}) \cup s[j]] :
                       s \in {slices(DOMAIN self.change_mask, JobCount)} }),
          !.change_results_cache = [j \in jobs |-> cache_get(@, j, EmptyMap)],
          !.change_jobs = @ \cup jobs,
          !.tasks = @ \cup {<<"changes", j>> : j \in jobs}]

\* the spawn test of the change task on the position itself:
\* -rule_bounding <= x, y, z <= rule_bounding
cm_in_spawn_bounds(pos, bounds) == \A a \in 1..3 : -bounds <= pos[a] /\ pos[a] <= bounds

\* the change a change task pushes for a position, if any
cm_change_of(self, rule_, pos) ==
    LET n == neighbours_get(self.neighbours, pos)
    IN IF pos \in DOMAIN self.states
       THEN IF ~(in_range_call(rule_.survival_rule, n).result
                 /\ self.states[pos].value = rule_.states)
            THEN [kind |-> "Decay", neighbours |-> 0]
            ELSE [kind |-> "None", neighbours |-> 0]
       ELSE IF in_range_call(rule_.birth_rule, n).result
               /\ cm_in_spawn_bounds(pos, rule_.bounding_size)
            THEN [kind |-> "Spawn", neighbours |-> n]
            ELSE [kind |-> "None", neighbours |-> 0]

\* the body of the task spawned by calculate_changes for cache j
cm_changes_task(self, rule_, j) ==
    LET old == self.change_results_cache[j]
    IN [self EXCEPT
          !.change_results_cache[j] =
              Only({ [p \in DOMAIN old \cup pushed |->
                         IF p \in pushed THEN cm_change_of(self, rule_, p) ELSE old[p]] :
                     pushed \in {{p \in self.position_thread_cache[j] :
                                    cm_change_of(self, rule_, p).kind # "None"}} }),
          !.tasks = @ \ {<<"changes", j>>}]

\* tick() in AwaitChanges, "join in the changes": every result cache is
\* drained into self.changes (the caches hold disjoint positions)
cm_join_changes(self) ==
    LET caches == self.change_results_cache
        pushed == UNION {DOMAIN caches[j] : j \in DOMAIN caches}
        of(p) == caches[CHOOSE j \in DOMAIN caches : p \in DOMAIN caches[j]][p]
    IN [self EXCEPT
          !.changes = [p \in DOMAIN @ \cup pushed |-> IF p \in pushed THEN of(p) ELSE @[p]],
          !.change_results_cache = [j \in DOMAIN @ |-> EmptyMap]]

\* CellsMultithreaded::apply_changes.  states.get_mut(cell_pos).unwrap()
\* panics on a Decay of a position absent from states (recorded in
\* unwrap_failed)
cm_apply_changes(self, rule_) ==
    LET decays_ == {p \in DOMAIN self.changes : self.changes[p].kind = "Decay"}
        spawns_ == {p \in DOMAIN self.changes : self.changes[p].kind = "Spawn"}
        lowered(v) == (IF v - 1 < rule_.states THEN v - 1 ELSE rule_.states) % U8
        changed == [p \in DOMAIN self.states \cup spawns_ |->
                       IF p \in spawns_
                       THEN CellState_new(rule_.states, self.changes[p].neighbours)
                       ELSE IF p \in decays_
                            THEN [self.states[p] EXCEPT !.value = lowered(@)]
                            ELSE self.states[p]]
    IN Only({
       [self EXCEPT
          !.states = kept,
          !.instance_material_data = [some |-> TRUE, data |-> kept],
          !.changes = EmptyMap,
          !.change_mask = [p \in DOMAIN @ |-> FALSE],
          !.neighbours = EmptyMap,
          !.applied = @ + 1,
          !.applied_changes = self.changes,
          !.unwrap_failed = @ \/ ~(decays_ \subseteq DOMAIN self.states)] :
       kept \in {Only({ [p \in {q \in DOMAIN c : c[q].value > 0} |-> c[p]] :
                        c \in {changed} })} })

\* (variant) every job polled is taken as finished
unfinished_none(self, kind, jobs) == {}

\* the jobs of a Vec whose task has not finished: poll_once is None
unfinished(self, kind, jobs) == {j \in jobs : <<kind, j>> \in self.tasks}

\* the change tasks of a set run one after the other (they write to
\* different caches)
RECURSIVE cm_run_changes(_, _, _)
cm_run_changes(self, rule_, js) ==
    IF js = {} THEN self
    ELSE LET j == CHOOSE i \in js : TRUE
         IN cm_run_changes(cm_changes_task(self, rule_, j), rule_, js \ {j})

\* CellsMultithreaded::tick.  late is the set of change tasks that finish
\* after this tick has polled them and before it locks their result cache
\* (a task that is running holds the lock, and the tick waits for it)
cm_tick(self, rule_, late) ==
    CASE self.step = "Ready" -> self
      [] self.step = "CalculateNeighbours" ->
            [cm_calculate_neighbours(self, rule_) EXCEPT !.step = advance_to_next_step(@)]
      [] self.step = "AwaitNeighbours" ->
            LET polled == [self EXCEPT
                              !.neighbour_jobs = unfinished(self, "neighbours", @)]
            IN IF polled.neighbour_jobs = {}
               THEN [cm_merge_neighbours(polled) EXCEPT !.step = advance_to_next_step(@)]
               ELSE polled
      [] self.step = "CalculateChanges" ->
            [cm_calculate_changes(self, rule_) EXCEPT !.step = advance_to_next_step(@)]
      [] self.step = "AwaitChanges" ->
            LET polled == [self EXCEPT !.change_jobs = unfinished(self, "changes", @)]
            IN Only({ IF joined.change_jobs = {}
                      THEN [[cm_apply_changes(joined, rule_) EXCEPT
                                !.position_thread_cache = [j \in DOMAIN @ |-> {}]]
                            EXCEPT !.step = advance_to_next_step(@)]
                      ELSE joined :
                      joined \in {cm_join_changes(cm_run_changes(polled, rule_, late))} })

-----------------------------------------------------------------------------
(* cells_multithreaded.rs: one action per system of the plugin and one per
   task body.  The systems run once a frame in an order the scheduler picks;
   a system whose key is not pressed returns at once. *)

cm_rule == [rule EXCEPT !.bounding_size = CmBounds]

\* CellsMultithreadedPlugin::build: CellsMultithreaded::new(&rule)
CmBuild(positions) ==
    /\ cm = NoCm
    /\ cm' = cm_new(cm_rule, positions)
    /\ UNCHANGED <<leddoo_vars, probe, tantan, sims>>

\* the change tasks a tick() may find running
LateSets == IF cm.step = "AwaitChanges"
            THEN SUBSET unfinished(cm, "changes", cm.change_jobs)
            ELSE {{}}

\* system tick_cell: cells.tick(..), then cells.ready() if E is pressed
CmTickCell(e_pressed, late) ==
    /\ cm.step # "none"
    /\ late \in LateSets
    /\ e_pressed => cm.started < MaxCycles
    /\ \E ticked \in {cm_tick(cm, cm_rule, late)} :
          cm' = [(IF e_pressed THEN cm_ready(ticked) ELSE ticked) EXCEPT
                    !.last = [handler |-> "tick_cell", ticked |-> ticked.step]]
    /\ UNCHANGED <<leddoo_vars, probe, tantan, sims>>

\* system spawn_noise with P pressed
CmSpawnNoise(positions) ==
    /\ cm.step # "none"
    /\ cm.started < MaxCycles
    /\ LET after == IF cm_is_busy(cm) THEN cm
                    ELSE cm_ready([cm EXCEPT !.states = spawn_noise(@, cm_rule, positions)])
       IN cm' = [after EXCEPT !.last = [handler |-> "spawn_noise", ticked |-> cm.step]]
    /\ UNCHANGED <<leddoo_vars, probe, tantan, sims>>

\* the task spawned by calculate_neighbours for cache j runs
CmNeighbourTask(j) ==
    /\ cm.step # "none"
    /\ <<"neighbours", j>> \in cm.tasks
    /\ cm' = [cm_neighbour_task(cm, cm_rule, j) EXCEPT
                 !.last = [handler |-> "neighbour_task", ticked |-> cm.step]]
    /\ UNCHANGED <<leddoo_vars, probe, tantan, sims>>

\* the task spawned by calculate_changes for cache j runs
CmChangesTask(j) ==
    /\ cm.step # "none"
    /\ <<"changes", j>> \in cm.tasks
    /\ cm' = [cm_changes_task(cm, cm_rule, j) EXCEPT
                 !.last = [handler |-> "changes_task", ticked |-> cm.step]]
    /\ UNCHANGED <<leddoo_vars, probe, tantan, sims>>

\* system prepare_cell_data: cells.instance_material_data.take()
CmPrepareCellData ==
    /\ cm.step # "none"
    /\ cm.instance_material_data.some
    /\ cm' = [cm EXCEPT !.instance_material_data = [some |-> FALSE, data |-> EmptyMap],
                        !.last = [handler |-> "prepare_cell_data", ticked |-> cm.step]]
    /\ UNCHANGED <<leddoo_vars, probe, tantan, sims>>

CellsNext ==
    \/ \E positions \in SmallDraws : CmBuild(positions)
    \/ \E e_pressed \in BOOLEAN : \E late \in SUBSET (0..(JobCount - 1)) :
          CmTickCell(e_pressed, late)
    \/ \E positions \in CmDraws : CmSpawnNoise(positions)
    \/ \E j \in 0..(JobCount - 1) : CmNeighbourTask(j)
    \/ \E j \in 0..(JobCount - 1) : CmChangesTask(j)
    \/ CmPrepareCellData

Cells == Init /\ [][CellsNext]_vars

\* the steps of ProcessStep
ProcessSteps ==
    {"Ready", "CalculateNeighbours", "AwaitNeighbours", "CalculateChanges", "AwaitChanges"}

\* the handler of the step taken and the ProcessStep its tick() left
CmHandler == cm'.last.handler

CmTicked == cm'.last.ticked

\* every job of the Vec has run to completion
JobsFinished(kind, jobs) == \A j \in jobs : <<kind, j>> \notin cm.tasks

\* C26: ProcessStep protocol order.  The step changes only along the cycle
\* Ready -> CalculateNeighbours -> AwaitNeighbours -> CalculateChanges ->
\* AwaitChanges -> Ready: tick() leaves the step or moves it to the next one,
\* tick() in Ready changes nothing, ready() moves the step only from Ready (to
\* CalculateNeighbours), no task and no other system moves it, and tick()
\* leaves an await step only when every job of that step has finished.
C26_ProcessStepOrder ==
    [][cm.step # "none" =>
        /\ CmHandler = "tick_cell" =>
              /\ CmTicked \in {cm.step, advance_to_next_step(cm.step)}
              /\ cm.step = "Ready" =>
                    /\ CmTicked = "Ready"
                    /\ [cm' EXCEPT !.last = cm.last, !.step = cm.step,
                                   !.started = cm.started] = cm
              /\ cm'.step # CmTicked =>
                    CmTicked = "Ready" /\ cm'.step = "CalculateNeighbours"
              /\ cm.step = "AwaitNeighbours" /\ CmTicked # cm.step =>
                    JobsFinished("neighbours", cm.neighbour_jobs)
              /\ cm.step = "AwaitChanges" /\ CmTicked # cm.step =>
                    JobsFinished("changes", cm.change_jobs)
        /\ CmHandler = "spawn_noise" /\ cm'.step # cm.step =>
              cm.step = "Ready" /\ cm'.step = "CalculateNeighbours"
        /\ CmHandler \notin {"tick_cell", "spawn_noise"} => cm'.step = cm.step
    ]_vars

\* two cycles have run to their end, the second started by ready()
C26_Witness ==
    /\ cm.step = "Ready"
    /\ cm.applied >= 2
    /\ cm.last.handler = "tick_cell"

\* C27: apply_changes once per cycle.  The number of apply_changes calls is
\* the number of cycles started, less the one in progress; apply_changes runs
\* only in a tick() called in AwaitChanges that finds every change job
\* finished, on the merged results of all the change tasks (the change of
\* every masked position), and that tick() leaves the step at Ready.
C27_ApplyOncePerCycle ==
    /\ [](cm.step # "none" =>
            cm.applied = IF cm.step = "Ready" THEN cm.started ELSE cm.started - 1)
    /\ [][cm.step # "none" /\ cm'.applied # cm.applied =>
            /\ cm.step = "AwaitChanges"
            /\ CmHandler = "tick_cell"
            /\ CmTicked = "Ready"
            /\ cm'.applied = cm.applied + 1
            /\ JobsFinished("changes", cm.change_jobs)
            /\ DOMAIN cm'.applied_changes \subseteq DOMAIN cm.change_mask
            /\ \A p \in DOMAIN cm.change_mask :
                  LET c == cm_change_of(cm, cm_rule, p)
                  IN IF c.kind = "None"
                     THEN p \notin DOMAIN cm'.applied_changes
                     ELSE p \in DOMAIN cm'.applied_changes /\ cm'.applied_changes[p] = c
       ]_vars

\* a tick() has applied the changes of a cycle, a decay and a spawn among them
C27_Witness ==
    /\ cm.step = "Ready"
    /\ cm.last.handler = "tick_cell"
    /\ \E p, q \in DOMAIN cm.applied_changes :
          cm.applied_changes[p].kind = "Decay" /\ cm.applied_changes[q].kind = "Spawn"

\* C28: noise only while Ready.  While a cycle is in progress states is
\* modified by nothing but apply_changes (spawn_noise returns when is_busy),
\* so every Decay that apply_changes goes through is of a position present in
\* states, and its unwrap never fails.
C28_NoiseOnlyWhenReady ==
    /\ [](cm.step # "none" => ~cm.unwrap_failed)
    /\ [][cm.step \notin {"none", "Ready"} =>
            /\ cm'.applied = cm.applied => cm'.states = cm.states
            /\ cm'.applied # cm.applied =>
                  \A p \in DOMAIN cm'.applied_changes :
                      cm'.applied_changes[p].kind = "Decay" => p \in DOMAIN cm.states
       ]_vars

\* noise was injected in step Ready after a cycle that applied a decay
C28_Witness ==
    /\ cm.step = "CalculateNeighbours"
    /\ cm.last.handler = "spawn_noise"
    /\ cm.applied >= 1
    /\ \E p \in DOMAIN cm.applied_changes : cm.applied_changes[p].kind = "Decay"

\* the tasks run to completion and tick() keeps being called
CellsLive ==
    /\ Cells
    /\ WF_vars(CmTickCell(FALSE, {}))
    /\ \A j \in 0..(JobCount - 1) : WF_vars(CmNeighbourTask(j)) /\ WF_vars(CmChangesTask(j))

\* C29: cycle liveness.  From every ProcessStep, the CalculateNeighbours that
\* new() leaves included, the simulation reaches Ready, and it leaves Ready
\* only by a call of ready().
C29_CycleLiveness ==
    /\ (cm.step \in ProcessSteps) ~> (cm.step = "Ready")
    /\ [][cm.step = "Ready" /\ cm'.step # "Ready" =>
            /\ cm'.step = "CalculateNeighbours"
            /\ cm'.started = cm.started + 1
            /\ CmHandler \in {"tick_cell", "spawn_noise"}]_vars

\* the cycle that new() started has reached Ready
C29_Witness == cm.step = "Ready" /\ cm.started = 1 /\ cm.applied = 1

\* C30: value range.  With the rule fixed, every cell of LeddooAtomic holds a
\* value v with 0 <= v <= rule.states in every state reached from the empty
\* grid by set_bounds, spawn_noise and update, the states inside an update
\* included.
C30_ValueRange ==
    \A i \in DOMAIN at.values : 0 <= at.values[i] /\ at.values[i] <= rule.states

\* an update has returned on a grid seeded by noise: a cell is at full value
\* and another one is decaying
C30_Witness ==
    /\ pc = "idle" /\ op.kind = "update"
    /\ rule.states >= 2
    /\ \E i \in DOMAIN at.values : at.values[i] = rule.states
    /\ \E j \in DOMAIN at.values : 0 < at.values[j] /\ at.values[j] < rule.states

-----------------------------------------------------------------------------
(* C36: the empty grid is a fixed point of update() *)

\* the grid held as the update() in progress began: every cell dead, every
\* count 0, and the rule does not give birth on count 0
PreEmptyAt ==
    /\ ~in_range(rule.birth_rule, 0)
    /\ \A i \in DOMAIN pre.values : pre.values[i] = 0 /\ pre.neighbors[i] = 0

PreEmptyMt ==
    /\ ~in_range(rule.birth_rule, 0)
    /\ \A c \in DOMAIN pre.values : \A o \in DOMAIN pre.values[c] :
          pre.values[c][o] = 0 /\ pre.neighbors[c][o] = 0

\* C36: empty grid is a fixed point.  If every cell is dead, every neighbor
\* count is 0 and 0 is not in the birth set, then update() produces empty
\* spawns and deaths lists and leaves every value and every neighbor count
\* unchanged, for the atomic, the multi-threaded and the single-threaded engine.
C36_EmptyGridFixedPoint ==
    /\ []((pc \in {"at_values", "at_neighbors"} /\ PreEmptyAt) =>
            /\ at.values = pre.values /\ at.neighbors = pre.neighbors
            /\ AtAllSpawns = <<>> /\ AtAllDeaths = <<>>)
    /\ []((pc \in {"mt_values", "mt_neighbours"} /\ PreEmptyMt) =>
            /\ mt.values = pre.values /\ mt.neighbours = pre.neighbors
            /\ MtAllSpawns = <<>> /\ MtAllDeaths = <<>>
            /\ mt_run.spawns = <<>> /\ mt_run.deaths = <<>>)
    /\ [][/\ (pc = "at_neighbors" /\ pc' = "mt" /\ PreEmptyAt) =>
                at'.values = pre.values /\ at'.neighbors = pre.neighbors
          /\ (pc = "mt_neighbours" /\ pc' = "st" /\ PreEmptyMt) =>
                mt'.values = pre.values /\ mt'.neighbours = pre.neighbors
          /\ (StUpdateStep /\ st_all_dead(st) /\ ~in_range(rule.birth_rule, 0)) =>
                /\ st'.values = st.values /\ st'.neighbors = st.neighbors
                /\ StSpawns = <<>> /\ StDeaths = <<>>]_vars

\* the update() of the multi-threaded engine is in its second phase on a grid
\* of two chunks per axis that was empty as the update began, after the atomic
\* engine has returned from its update of the same empty grid
C36_Witness ==
    /\ pc = "mt_neighbours"
    /\ PreEmptyMt
    /\ mt_bounds(mt) = 2 * CHUNK_SIZE
    /\ at_bounds(at) = 2 * CHUNK_SIZE
    /\ at_all_dead(at)

-----------------------------------------------------------------------------
(* C33: Sim::reset *)

-----------------------------------------------------------------------------
(* C34: the sparse single-threaded simulation after a tick *)

\* C34: sparse-engine post-tick invariant.  After every
\* CellsSinglethreaded::tick the states map holds no cell with value 0 and no
\* cell with value above rule.states, the per-tick caches neighbours, changes
\* and spawn are empty, and a cell born in the tick has value exactly
\* rule.states at the end of that tick.
C34_PostTick ==
    /\ \A p \in DOMAIN tantan.st.states :
          /\ tantan.st.states[p].value # 0
          /\ tantan.st.states[p].value <= tantan_rule.states
    /\ tantan.st.neighbours = EmptyMap
    /\ tantan.st.changes = EmptyMap
    /\ tantan.st.spawn = {}
    /\ \A p \in tantan.born :
          /\ p \in DOMAIN tantan.st.states
          /\ tantan.st.states[p].value = tantan_rule.states

\* the second or a later tick, in which a cell was born while another cell
\* holds a value below rule.states and a position of the box holds no cell
C34_Witness ==
    /\ tantan.born # {}
    /\ tantan.ops >= 2
    /\ \E p \in DOMAIN tantan.st.states : tantan.st.states[p].value < tantan_rule.states
    /\ \E p \in get_bounding_ranges(tantan_rule) : p \notin DOMAIN tantan.st.states

-----------------------------------------------------------------------------
(* C35: one tick of the two sparse simulations *)

\* the live positions of a states map with their values
live_values(states) == [p \in DOMAIN states |-> states[p].value]

\* C35: sparse single- vs multi-threaded equivalence.  For the same rule and
\* the same in-bounds states map, one tick of tantan CellsMultithreaded yields
\* the same set of live positions with the same values as one tick of tantan
\* CellsSinglethreaded, including for rules whose birth set contains 0.
C35_SparseEquivalence ==
    probe.fn = "sparse_tick" =>
        live_values(probe.out.mt) = live_values(probe.out.st)

\* the same, for the rules whose birth set does not contain 0
SparseEquivalenceWithoutBirthAtZero ==
    (probe.fn = "sparse_tick" /\ ~in_range_incorrect_call(probe.arg[1].birth_rule, 0).result) =>
        live_values(probe.out.mt) = live_values(probe.out.st)

\* a tick compared under a rule without 0 in its birth set in which a cell
\* was born and a cell decayed
SparseComparedTick ==
    /\ probe.fn = "sparse_tick"
    /\ ~in_range_incorrect_call(probe.arg[1].birth_rule, 0).result
    /\ \E p \in DOMAIN probe.out.st : p \notin DOMAIN probe.arg[2]
    /\ \E p \in DOMAIN probe.arg[2] :
          p \notin DOMAIN probe.out.st \/ probe.out.st[p].value < probe.arg[2][p].value

-----------------------------------------------------------------------------
(* cells/sims.rs: the operations of Sims on its simulators and the frame *)

\* sims[index].bounds()
sim_bounds(this, index) ==
    IF index = 0 THEN at_bounds(this.at) ELSE mt_bounds(this.mt)

\* sims[index].set_bounds(new_bounds): the simulator after the call
sim_set_bounds(this, index, new_bounds) ==
    IF index = 0 THEN [this EXCEPT !.at = at_set_bounds(@, new_bounds)]
                 ELSE [this EXCEPT !.mt = mt_set_bounds(@, new_bounds)]

\* sims[index].reset()
sim_reset(this, index) ==
    IF index = 0 THEN [this EXCEPT !.at = at_reset(@)]
                 ELSE [this EXCEPT !.mt = mt_reset(@)]

\* sims[index].spawn_noise(&rule)
sim_spawn_noise(this, index, rule_, draws) ==
    IF index = 0 THEN [this EXCEPT !.at = at_spawn_noise(@, rule_, draws)]
                 ELSE [this EXCEPT !.mt = mt_spawn_noise(@, rule_, draws)]

\* every cell of the simulator dead, every count 0
sim_all_dead(this, index) ==
    IF index = 0 THEN at_all_dead(this.at) ELSE mt_all_dead(this.mt)

\* the cell <<value, count>> of sims[index] at a lattice position
sim_cell_at(this, index, pos) ==
    IF index = 0
    THEN LET i == pos_to_index(pos, at_bounds(this.at))
         IN <<this.at.values[i], this.at.neighbors[i]>>
    ELSE LET i == pos_to_index_ex(pos, this.mt.chunk_radius)
         IN <<this.mt.values[index_to_chunk_index(i)][index_to_chunk_offset(i)],
              this.mt.neighbours[index_to_chunk_index(i)][index_to_chunk_offset(i)]>>

\* no value of sims[index] is above rule.states
sim_values_ok(this, index, rule_) ==
    \A pos \in Lattice(sim_bounds(this, index)) :
        sim_cell_at(this, index, pos)[1] <= rule_.states

\* validate(): every count of sims[index] equals the number of directions of
\* the rule's topology whose wrapped neighbour is at rule.states.  The
\* positions with such a neighbour are the positions one step against a
\* direction from a cell at rule.states; every other position must hold 0.
sim_counts_ok(this, index, rule_) ==
    LET bounds == sim_bounds(this, index)
        dirs == get_neighbour_iter(rule_.neighbour_method)
        check(live, near) ==
            \A pos \in Lattice(bounds) :
                sim_cell_at(this, index, pos)[2] =
                    IF pos \in near
                    THEN Cardinality({k \in DOMAIN dirs :
                             wrap(vadd(pos, dirs[k]), bounds) \in live})
                    ELSE 0
        around(live) ==
            check(live, {wrap(vadd(p, vscale(-1, dirs[k])), bounds) :
                            p \in live, k \in DOMAIN dirs})
    IN around({p : p \in {pos \in Lattice(bounds) :
                              sim_cell_at(this, index, pos)[1] = rule_.states}})

\* LeddooAtomic::update, the value tasks: update_values of chunk c and of the
\* chunks after it, each on the cells of its own chunk
RECURSIVE at_value_tasks(_, _, _, _)
at_value_tasks(self, rule_, c, acc) ==
    LET joined(r) == [values |-> r.values,
                      spawns |-> acc.spawns \o r.spawns,
                      deaths |-> acc.deaths \o r.deaths]
    IN IF c >= self.chunk_count THEN acc
       ELSE at_value_tasks(self, rule_, c + 1,
                joined(at_update_values(acc.values, self.neighbors, c, self.chunk_radius,
                                        at_bounds(self), rule_)))

\* LeddooAtomic::update as one step: the value tasks are joined, then the
\* neighbor tasks patch the counts for the spawns and the deaths (the counts
\* after the tasks do not depend on their schedule)
at_update(self, rule_) ==
    LET neighbor_index(i, k) == at_neighbor_index(i, at_bounds(self), rule_, k)
        neighbor_tasks(a) ==
            [self EXCEPT
                !.values = a.values,
                !.neighbors = patch(@, targets_of(a.spawns, rule_, neighbor_index),
                                       targets_of(a.deaths, rule_, neighbor_index))]
    IN neighbor_tasks(at_value_tasks(self, rule_, 0,
                          [values |-> self.values, spawns |-> <<>>, deaths |-> <<>>]))

\* the neighbour task of one chunk: update_neighbors_chunk for the chunk's own
\* spawns, then for its deaths (wrapping u8 steps, so the counts after the
\* task are the counts patched by the numbers of steps per cell)
neighbour_task(chunk, rule_, chunk_spawns, chunk_deaths) ==
    LET neighbor_index(offset, k) ==
            Chunk_pos_to_index(vadd(Chunk_index_to_pos(offset),
                                    get_neighbour_iter(rule_.neighbour_method)[k]))
    IN patch(chunk, targets_of(chunk_spawns, rule_, neighbor_index),
                    targets_of(chunk_deaths, rule_, neighbor_index))

\* LeddooMultiThreaded::update as one step: the value tasks, the neighbour
\* tasks on the chunk-local lists, then the serial pass over the lists of the
\* border cells
mt_update(self, rule_) ==
    LET serial(s1, spawns, deaths) ==
            [s1 EXCEPT !.neighbours = mt_patch(@, mt_targets(s1, rule_, spawns),
                                                  mt_targets(s1, rule_, deaths))]
        tasks(r) ==
            serial([self EXCEPT
                      !.values = [c \in ChunksOf(self.chunk_count) |-> r[c].values],
                      !.neighbours = [c \in ChunksOf(self.chunk_count) |->
                          neighbour_task(self.neighbours[c], rule_,
                                         r[c].chunk_spawns, r[c].chunk_deaths)]],
                   Extend([c \in ChunksOf(self.chunk_count) |-> r[c].spawns], 0),
                   Extend([c \in ChunksOf(self.chunk_count) |-> r[c].deaths], 0))
    IN tasks([c \in ChunksOf(self.chunk_count) |->
                 update_values_chunk(self.values[c], self.neighbours[c], c, rule_)])

\* Value::in_range panics in the update of sims[index]
sim_update_panics(this, index, rule_) ==
    \E pos \in Lattice(sim_bounds(this, index)) :
        in_range_panics(sim_cell_at(this, index, pos)[1],
                        sim_cell_at(this, index, pos)[2], rule_)

\* sims[index].update(&rule, &task_pool.0)
sim_update(this, index, rule_) ==
    IF index = 0 THEN [this EXCEPT !.at = at_update(@, rule_)]
                 ELSE [this EXCEPT !.mt = mt_update(@, rule_)]

\* Sims::set_sim, in the order of its statements: reset of the simulator that
\* was active, set_bounds on the new one, self.bounds, spawn_noise,
\* renderer.set_bounds
set_sim(this, index, draws) ==
    LET record(t5, dead) ==
            [t5 EXCEPT
                !.history.after_set_sim =
                    <<t5.bounds, sim_bounds(t5, index), t5.renderer.bounds>>,
                !.history.seeded = IF dead THEN <<t5.rule>> ELSE <<>>]
        render(t4, dead) ==
            record([t4 EXCEPT !.renderer = CellRenderer_set_bounds(@, t4.bounds)], dead)
        seed(t3) ==
            render(sim_spawn_noise(t3, index, t3.rule, draws), sim_all_dead(t3, index))
        store(set) ==
            seed([set EXCEPT !.active_sim = index, !.bounds = sim_bounds(set, index)])
        resize(t1) == store(sim_set_bounds(t1, index, t1.bounds))
    IN resize(IF this.active_sim < SimCount THEN sim_reset(this, this.active_sim)
              ELSE this)

\* Sims::set_example, on the rule of the example
set_example(this, example_rule, draws) ==
    LET seed(cleared) ==
            [sim_spawn_noise(cleared, this.active_sim, example_rule, draws) EXCEPT
                !.rule = example_rule,
                !.history.seeded = IF sim_all_dead(cleared, this.active_sim)
                                   THEN <<example_rule>> ELSE <<>>]
    IN IF this.active_sim < SimCount
       THEN seed(sim_reset(this, this.active_sim))
       ELSE [this EXCEPT !.rule = example_rule]

\* (variant) the bound asked for is kept, not the bound set_bounds returns
slider_changed_not_rounded(this, active_sim, bounds, draws) ==
    LET render(t2, returned) ==
            [this |-> [t2 EXCEPT !.renderer = CellRenderer_set_bounds(@, returned)],
             bounds |-> returned]
        seed(t1) == render(sim_spawn_noise(t1, active_sim, t1.rule, draws), bounds)
    IN seed(sim_set_bounds(this, active_sim, bounds))

\* update, if bounds != old_bounds: bounds = sim.set_bounds(bounds);
\* sim.spawn_noise(&rule); this.renderer.set_bounds(bounds)
slider_changed(this, active_sim, bounds, draws) ==
    LET render(t2, returned) ==
            [this |-> [t2 EXCEPT !.renderer = CellRenderer_set_bounds(@, returned)],
             bounds |-> returned]
        seed(t1) == render(sim_spawn_noise(t1, active_sim, t1.rule, draws),
                           sim_bounds(t1, active_sim))
    IN seed(sim_set_bounds(this, active_sim, bounds))

\* update, the block "Rules:": the rule edited by the combo box and the
\* slider; if rule != old_rule the simulator is reset and seeded
rule_edited(this, active_sim, neighbour_method, states, draws) ==
    LET seed(cleared, rule_) ==
            [sim_spawn_noise(cleared, active_sim, rule_, draws) EXCEPT
                !.rule = rule_,
                !.history.seeded = IF sim_all_dead(cleared, active_sim)
                                   THEN <<rule_>> ELSE <<>>]
        edit(rule_) ==
            IF rule_ # this.rule THEN seed(sim_reset(this, active_sim), rule_) ELSE this
    IN edit([this.rule EXCEPT !.neighbour_method = neighbour_method, !.states = states])

\* <LeddooAtomic as Sim>::render: renderer.set(index, value, neighbors) for
\* index in 0..total_cell_count
at_render_into(self, renderer) ==
    [renderer EXCEPT
        !.values = [i \in DOMAIN @ |->
                       IF i <= at_total_cell_count(self) THEN self.values[i - 1] ELSE @[i]],
        !.neighbors = [i \in DOMAIN @ |->
                       IF i <= at_total_cell_count(self) THEN self.neighbors[i - 1] ELSE @[i]]]

\* update, after the window: for index in 0..renderer.cell_count() the
\* InstanceData of the cells with value != 0, positions by the local bounds
render_loop(renderer, bounds) ==
    LET data(live) ==
            [k \in DOMAIN live |->
                InstanceData(index_to_pos(live[k], bounds), center(bounds),
                             renderer.values[live[k] + 1], renderer.neighbors[live[k] + 1])]
    IN data(Ascending({i \in 0..(CellRenderer_cell_count(renderer) - 1) :
                          renderer.values[i + 1] # 0}))

\* what the user does to the window in one frame
UiInputs ==
    [sel : 0..(SimCount - 1), reset : BOOLEAN, noise : BOOLEAN,
     slider : {<<>>, <<CHUNK_SIZE>>, <<CHUNK_SIZE + 1>>, <<2 * CHUNK_SIZE>>},
     neighbour_method : {"Moore", "VonNeuman"}, states : {1, 2},
     example : {<<>>} \cup {<<r>> : r \in Rules},
     draws : NoiseDraws]

\* number of widgets of the window the input differs on from a frame in
\* which the user does nothing
Interactions(this, active_sim, input) ==
    (IF input.sel # active_sim THEN 1 ELSE 0) + (IF input.reset THEN 1 ELSE 0)
    + (IF input.noise THEN 1 ELSE 0) + (IF input.slider # <<>> THEN 1 ELSE 0)
    + (IF input.neighbour_method # this.rule.neighbour_method THEN 1 ELSE 0)
    + (IF input.states # this.rule.states THEN 1 ELSE 0)
    + (IF input.example # <<>> THEN 1 ELSE 0)

\* the system update of sims.rs, one frame; the stages are the statements of
\* update in the order first, combo, buttons, slider, rules, examples,
\* observe (what sim.update is about to receive), run, render, finish
Sims_update(this0, input) ==
    LET active_sim == input.sel
        finish(t8, bounds, renderer, rule_) ==
            [t8 EXCEPT
                !.renderer = renderer,
                !.history.loop_bounds = bounds,
                !.history.instance_data =
                    IF active_sim = 0 THEN render_loop(renderer, bounds)
                    ELSE mt_render(t8.mt, rule_),
                !.bounds = bounds,
                !.active_sim = active_sim,
                !.frames = @ + 1]
        render(t8, bounds, rule_) ==
            IF active_sim = 0 /\ at_total_cell_count(t8.at) > Len(t8.renderer.values)
            THEN [t8 EXCEPT !.panicked = TRUE]
            ELSE finish(t8, bounds,
                        IF active_sim = 0 THEN at_render_into(t8.at, t8.renderer)
                        ELSE t8.renderer,
                        rule_)
        run(t7, bounds, rule_) ==
            IF sim_update_panics(t7, active_sim, rule_)
            THEN [t7 EXCEPT !.panicked = TRUE]
            ELSE render(sim_update(t7, active_sim, rule_), bounds, rule_)
        observe(t6, bounds) ==
            run([t6 EXCEPT !.history.update =
                    [called |-> TRUE,
                     values_ok |-> sim_values_ok(t6, active_sim, t6.rule),
                     counts_ok |-> sim_counts_ok(t6, active_sim, t6.rule),
                     rule |-> <<t6.rule>>, sim |-> active_sim]],
                bounds, t6.rule)
        examples(t5, bounds) ==
            observe(IF input.example # <<>>
                    THEN set_example(t5, input.example[1], input.draws) ELSE t5,
                    bounds)
        rules(t4) ==
            examples(rule_edited(t4.this, active_sim, input.neighbour_method,
                                 input.states, input.draws),
                     t4.bounds)
        slider(t3, slid, old_bounds) ==
            rules(IF slid # old_bounds
                  THEN slider_changed(t3, active_sim, slid, input.draws)
                  ELSE [this |-> t3, bounds |-> slid])
        noise(t2) ==
            IF input.noise THEN sim_spawn_noise(t2, active_sim, t2.rule, input.draws)
            ELSE t2
        buttons(t1, old_bounds) ==
            slider(noise(IF input.reset THEN sim_reset(t1, active_sim) ELSE t1),
                   IF input.slider # <<>> THEN input.slider[1] ELSE t1.bounds,
                   old_bounds)
        combo(t0) ==
            buttons(IF active_sim # t0.active_sim
                    THEN set_sim(t0, active_sim, input.draws) ELSE t0,
                    t0.bounds)
        first(start) ==
            combo(IF start.active_sim > SimCount THEN set_sim(start, 0, input.draws)
                  ELSE start)
    IN first([this0 EXCEPT !.history =
                 [NoHistory EXCEPT !.previous_rule =
                     IF this0.frames = 0 THEN <<>> ELSE <<this0.rule>>]])

\* Sims with the two engines and the rule
this_of(sims_) == [at |-> at, mt |-> mt, rule |-> rule] @@ sims_

\* the system update runs once per frame, on what the user did to the window
SimsUpdate ==
    /\ sims.frames < MaxFrames
    /\ ~sims.panicked
    /\ \E this \in {this_of(sims)} :
       \E input \in UiInputs :
          /\ Interactions(this, IF this.active_sim > SimCount THEN 0 ELSE this.active_sim,
                          input) <= 1
          /\ \E next \in {Sims_update(this, input)} :
                /\ at' = next.at
                /\ mt' = next.mt
                /\ rule' = next.rule
                /\ sims' = [active_sim |-> next.active_sim, bounds |-> next.bounds,
                            renderer |-> next.renderer, frames |-> next.frames,
                            panicked |-> next.panicked, history |-> next.history]
    /\ UNCHANGED <<st, pc, op, ops, at_run, mt_run, pre, access, agreed, clean, valid,
                   probe, frame, tantan, cm>>

SimsNext == SimsUpdate

SimsSpec == Init /\ [][SimsNext]_vars

-----------------------------------------------------------------------------
(* The bounds of Sims, of the active simulator and of the renderer. *)

\* the bounds Sims, the active simulator and the renderer hold
BoundsOf(sims_) ==
    <<sims_.bounds, sim_bounds(this_of(sims_), sims_.active_sim), sims_.renderer.bounds>>

-----------------------------------------------------------------------------
(* The grid that sim.update receives from Sims. *)

\* the frame called sim.update with a rule that differs from the rule of the
\* frame before it
RuleChanged ==
    /\ sims.history.update.called
    /\ sims.history.previous_rule # <<>>
    /\ sims.history.update.rule # sims.history.previous_rule

UpdateOnValidGridAtomic ==
    sims.history.update.called /\ sims.history.update.sim = 0 =>
        /\ RuleChanged => sims.history.seeded = sims.history.update.rule
        /\ sims.history.update.values_ok
        /\ sims.history.update.counts_ok

\* a frame of LeddooAtomic that changed the rule and then updated
RuleChangedAtomic == RuleChanged /\ sims.history.update.sim = 0 /\ ~sims.panicked

=============================================================================
